---- MODULE Spec2Model ----
(***************************************************************************)
(* Genesis Mesh node runtime: the RBAC enforcer, the control-message       *)
(* handler with its replay cache, the routing table, protocol and router,  *)
(* CRL gossip, the peer manager, the connection, the certificate manager,  *)
(* the audit log and the join-certificate check, modelled from the Python  *)
(* sources under src/genesis_mesh.                                         *)
(*                                                                         *)
(* Specifications:                                                         *)
(*   SpecRbac   RBACEnforcer.validate_control_message and                  *)
(*              _check_role_permission applied to bounded inputs           *)
(*   SpecCtl    one ControlMessageHandler: handle_control_message, the     *)
(*              replay-cache sweep, start/stop with the persisted cache    *)
(*   SpecTable  one RoutingTable driven through its public operations      *)
(*   SpecNet    three nodes, each a RoutingTable plus a RoutingProtocol    *)
(*   SpecRouter one MeshRouter over a RoutingTable and a connection lookup *)
(*   SpecCrl    one CRLGossip receiving, setting and pushing CRLs          *)
(*   SpecPeers  one PeerManager with the PeerDiscovery that merges into it *)
(*   SpecConn   one Connection: its state, its tasks and its send queue    *)
(*   SpecConnFair  SpecConn under the event loop's scheduling              *)
(*   SpecCert   one CertificateManager: the monitor loop and the renewals  *)
(*   SpecAudit  one AuditLogger: its log file, edits to it, verify_chain   *)
(*   SpecJoin   MeshNode._verify_join_certificate on bounded certificates  *)
(*   SpecCrlCache  one CRLGossip with the sweep of its CRL cache            *)
(*   SpecGossip two nodes, each a CRLGossip, joined by one connection      *)
(*   SpecGossipFair  SpecGossip under the event loop's scheduling          *)
(***************************************************************************)
EXTENDS Integers, Sequences, FiniteSets, TLC

VARIABLES
    \* ---- clock shared by the components (time.time / datetime.utcnow)
    now,
    \* ---- RBACEnforcer under test (SpecRbac)
    rbac_message,        \* the ControlMessageModel given to validate_control_message
    rbac_config,         \* require_all_signatures, min_signatures, additional_keys
    rbac_result,         \* the (is_valid, error) it returned, None before the call
    perm_query,          \* (role, command, scope) given to _check_role_permission
    perm_result,         \* what it returned
    \* ---- ControlMessageHandler (SpecCtl)
    _processed_messages, \* replay cache: insertion-ordered dict id -> timestamp
    _running,            \* cleanup loop running
    _replay_cache_file,  \* path given to start(), None when unset
    cache_file,          \* content of the replay cache file on disk, None if absent
    _revoked_certs,      \* keys of the local certificate revocation cache
    _revoked_nodes,      \* keys of the local node blacklist
    _bootstrap_anchors,  \* current bootstrap anchor list
    shutdown_tasks,      \* scheduled _do_shutdown tasks not yet run
    audit_log,           \* event types appended to the audit logger, in order
    observer_calls,      \* observer callback name -> number of invocations
    executions,          \* message_id -> number of times its command handler ran
    calls,               \* number of handle_control_message calls made
    last_call,           \* outcome of the latest handle_control_message call
    \* ---- RoutingTable (SpecTable)
    routes,              \* destination -> Route
    neighbors,           \* peer_id -> link metric
    _sequences,          \* destination -> last accepted sequence
    _local_sequence,     \* local sequence counter
    last_sweep,          \* destinations whose route the cleanup_stale_routes call just made deleted
    \* ---- three-node network (SpecNet)
    tables,              \* node -> its RoutingTable (routes, neighbors, sequences)
    announced,           \* nodes whose _announce_routes ran since the topology last changed
    \* ---- MeshRouter (SpecRouter), routing over the RoutingTable above
    _seen_messages,      \* message_id -> time it was first seen
    connections,         \* peers for which get_connection returns a connection
    route_calls,         \* number of route_message calls made
    delivered,           \* message_id -> times at which it was delivered or forwarded
    broadcasts,          \* message_id -> number of route_message calls that broadcast it
    fanouts,             \* message_id -> times at which a broadcast fan-out was made for it
    last_route,          \* outcome of the latest route_message call
    \* ---- CRLGossip (SpecCrl)
    current_crl,         \* the CRL held, None (the empty tuple) before the first
    _crl_cache,          \* sequence -> CRL
    crl_broadcasts,      \* payloads handed to broadcast_func, in order
    crl_calls,           \* number of CRLGossip calls made
    last_crl_data,       \* outcome of the latest call when it was handle_crl_data
    last_announce,       \* outcome of the latest call when it was handle_crl_announce
    \* ---- PeerManager and PeerDiscovery (SpecPeers)
    peers,               \* node_id -> PeerState
    _lock,               \* the manager's asyncio.Lock: "free", or "held" by a call that never returns
    blacklisted_at,      \* node_id -> time of its latest blacklisting, None before
    peer_calls,          \* number of PeerManager calls made
    last_add,            \* outcome of the latest call when it was add_peer
    last_cleanup,        \* outcome of the latest call when it was cleanup_stale_peers
    \* ---- Connection (SpecConn)
    state,               \* ConnectionState
    drop_on_full,        \* constructor argument
    _send_queue,         \* asyncio.Queue(maxsize=max_queue_size): the queued messages
    _putters,            \* messages of the put() calls waiting for space, in order
    _woken,              \* messages of the put() calls a get() has woken, not yet resumed
    max_written,         \* highest issue number among the messages written to the transport
    _dropped_messages,   \* dropped-message counter
    _receive_task,       \* task status: "none", "running", "cancelled", "done"
    _send_task,
    _ping_task,
    closing,             \* close() calls suspended in "await self.transport.close()"
    transport_closes,    \* number of transport.close() invocations
    on_close_calls,      \* number of on_close invocations
    close_calls,         \* number of close() calls begun
    sends,               \* number of send_message calls made
    conn_op,             \* the latest operation
    last_send,           \* outcome of the latest send_message call
    \* ---- CertificateManager (SpecCert)
    cert_running,        \* _running of the certificate manager
    _failure_count,      \* renewal failures counted since the last success
    renewal_pc,          \* caller of _attempt_renewal -> "idle", "renewing" or "backoff"
    renew_calls,         \* number of renew_certificate calls made
    renewed_calls,       \* number of on_certificate_renewed invocations
    failed_calls,        \* number of on_renewal_failed invocations
    last_renewal,        \* number and result of the latest renew_certificate call to return
    \* ---- AuditLogger (SpecAudit)
    enable_chaining,     \* constructor argument
    _last_hash,          \* hash of the latest event, None (the empty tuple) before the first
    audit_file,          \* the records in the log file, one per line
    audit_written,       \* the records as log_event wrote them
    verify_result,       \* what the latest verify_chain returned, None (the empty tuple) when the file changed since
    \* ---- MeshNode._verify_join_certificate (SpecJoin)
    join_check,          \* the latest call: the certificate, the time and the result
    \* ---- two CRLGossip instances joined by a connection (SpecGossip)
    gossip_crl,          \* node -> current_crl of its CRLGossip, None (the empty tuple) when unset
    gossip_cache,        \* node -> _crl_cache of its CRLGossip
    gossip_inbox,        \* node -> the REVOCATION messages sent to it and not yet handled, in order
    gossip_rounds,       \* node -> number of rounds its _gossip_loop has made
    gossip_last          \* the latest message handled: by whom, the message, what was sent in answer

clockVars == <<now>>
rbacVars  == <<rbac_message, rbac_config, rbac_result, perm_query, perm_result>>
ctlVars   == <<_processed_messages, _running, _replay_cache_file, cache_file,
               _revoked_certs, _revoked_nodes, _bootstrap_anchors, shutdown_tasks,
               audit_log, observer_calls, executions, calls, last_call>>
tableVars == <<routes, neighbors, _sequences, _local_sequence, last_sweep>>
netVars   == <<tables, announced>>
routerVars == <<_seen_messages, connections, route_calls, delivered, broadcasts, fanouts,
               last_route>>
crlVars   == <<current_crl, _crl_cache, crl_broadcasts, crl_calls, last_crl_data,
               last_announce>>
peerVars  == <<peers, _lock, blacklisted_at, peer_calls, last_add, last_cleanup>>
certVars  == <<cert_running, _failure_count, renewal_pc, renew_calls, renewed_calls,
               failed_calls, last_renewal>>
auditVars == <<enable_chaining, _last_hash, audit_file, audit_written, verify_result>>
joinVars  == <<join_check>>
gossipVars == <<gossip_crl, gossip_cache, gossip_inbox, gossip_rounds, gossip_last>>
connVars  == <<state, drop_on_full, _send_queue, _putters, _woken, max_written,
               _dropped_messages,
               _receive_task, _send_task, _ping_task, closing, transport_closes,
               on_close_calls, close_calls, sends, conn_op, last_send>>
vars      == <<clockVars, rbacVars, ctlVars, tableVars, netVars, routerVars, crlVars,
               peerVars, connVars, certVars, auditVars, joinVars, gossipVars>>

\* what the steps of one component leave alone
notRbac  == <<ctlVars, tableVars, netVars, routerVars, crlVars, peerVars, connVars,
              certVars, auditVars, joinVars, gossipVars>>
notCtl   == <<rbacVars, tableVars, netVars, routerVars, crlVars, peerVars, connVars,
              certVars, auditVars, joinVars, gossipVars>>
notTable == <<rbacVars, ctlVars, netVars, routerVars, crlVars, peerVars, connVars,
              certVars, auditVars, joinVars, gossipVars>>
notNet   == <<rbacVars, ctlVars, tableVars, routerVars, crlVars, peerVars, connVars,
              certVars, auditVars, joinVars, gossipVars>>
notRouter == <<rbacVars, ctlVars, netVars, crlVars, peerVars, connVars, certVars,
               auditVars, joinVars, gossipVars>>
notCrl   == <<rbacVars, ctlVars, tableVars, netVars, routerVars, peerVars, connVars,
              certVars, auditVars, joinVars, gossipVars>>
notPeer  == <<rbacVars, ctlVars, tableVars, netVars, routerVars, crlVars, connVars,
              certVars, auditVars, joinVars, gossipVars>>
notConn  == <<rbacVars, ctlVars, tableVars, netVars, routerVars, crlVars, peerVars,
              certVars, auditVars, joinVars, gossipVars>>

notCert  == <<rbacVars, ctlVars, tableVars, netVars, routerVars, crlVars, peerVars,
              connVars, auditVars, joinVars, gossipVars>>

notAudit == <<rbacVars, ctlVars, tableVars, netVars, routerVars, crlVars, peerVars,
              connVars, certVars, joinVars, gossipVars>>

notJoin  == <<rbacVars, ctlVars, tableVars, netVars, routerVars, crlVars, peerVars,
              connVars, certVars, auditVars, gossipVars>>

notGossip == <<rbacVars, ctlVars, tableVars, netVars, routerVars, crlVars, peerVars,
              connVars, certVars, auditVars, joinVars>>

\* None where the value is otherwise a string.
None == "None"

\* An Optional[int]: None is the empty tuple, a value x the tuple <<x>>.
NoValue == <<>>

Some(x) == <<x>>

\* A Python dict as a function with a finite domain; d.get(k) is d[k] when
\* Has(d, k) and None otherwise.
EmptyDict == [k \in {} |-> None]

Has(d, k) == k \in DOMAIN d

DictSet(d, k, v) == [x \in DOMAIN d \cup {k} |-> IF x = k THEN v ELSE d[x]]

DictDel(d, ks) == [x \in DOMAIN d \ ks |-> d[x]]

\* d.update(e): the entries of e win.
DictUpdate(d, e) == [x \in DOMAIN d \cup DOMAIN e |-> IF x \in DOMAIN e THEN e[x] ELSE d[x]]

SeqToSet(s) == {s[i] : i \in DOMAIN s}

(***************************************************************************)
(* models/control_plane.py                                                 *)
(***************************************************************************)
POLICY_UPDATE == "policy_update"

REVOKE_CERTIFICATE == "revoke_certificate"

REVOKE_NODE == "revoke_node"

UPDATE_BOOTSTRAP == "update_bootstrap"

SHUTDOWN_NODE == "shutdown_node"

ROTATE_KEYS == "rotate_keys"

ControlCommand == {POLICY_UPDATE, REVOKE_CERTIFICATE, REVOKE_NODE,
                   UPDATE_BOOTSTRAP, SHUTDOWN_NODE, ROTATE_KEYS}

ControlScope == {"network", "region", "node", "service"}

RolePermissions(role, commands, scopes) ==
    [role |-> role, allowed_commands |-> commands, allowed_scopes |-> scopes]

DEFAULT_ROLE_PERMISSIONS ==
    << RolePermissions("role:operator",
                       {POLICY_UPDATE, UPDATE_BOOTSTRAP},
                       {"network", "region"}),
       RolePermissions("role:admin",
                       {POLICY_UPDATE, REVOKE_CERTIFICATE, REVOKE_NODE,
                        UPDATE_BOOTSTRAP, SHUTDOWN_NODE},
                       {"network", "region", "node"}),
       RolePermissions("role:anchor", {}, {}),
       RolePermissions("role:client", {}, {}) >>

\* ControlMessageModel.to_canonical_json: every field but the signatures.
to_canonical_json(m) ==
    [message_id |-> m.message_id, command |-> m.command, scope |-> m.scope,
     issuer |-> m.issuer, issuer_roles |-> m.issuer_roles,
     expires_at |-> m.expires_at, target |-> m.target]

\* ControlMessageModel.is_expired at time t.
is_expired(m, t) ==
    IF m.expires_at = NoValue THEN FALSE ELSE t > m.expires_at[1]

(***************************************************************************)
(* crypto/signing.py.  An Ed25519 signature is the pair (public half of    *)
(* the signing key, bytes signed); it verifies under a public key exactly  *)
(* when that key is the signer's and the bytes are the ones presented.     *)
(***************************************************************************)
sign_model(m, public_key, key_id) ==
    [key_id |-> key_id, sig |-> [by |-> public_key, over |-> to_canonical_json(m)]]

verify_model_signature(m, signature, public_key) ==
    /\ signature.sig.by = public_key
    /\ signature.sig.over = to_canonical_json(m)

(***************************************************************************)
(* node/rbac.py: RBACEnforcer                                              *)
(***************************************************************************)
\* self._permission_map = {rp.role: rp for rp in role_permissions}: the last
\* entry listed for a role is the one kept.
_permission_map(role_permissions) ==
    LET roles == {role_permissions[i].role : i \in DOMAIN role_permissions}
        last(r) == CHOOSE i \in DOMAIN role_permissions :
                      /\ role_permissions[i].role = r
                      /\ \A j \in DOMAIN role_permissions :
                            role_permissions[j].role = r => j <= i
    IN [r \in roles |-> role_permissions[last(r)]]

_check_role_permission(role_permissions, role, command, scope) ==
    LET map == _permission_map(role_permissions)
    IN IF ~Has(map, role) THEN FALSE
       ELSE IF command \notin map[role].allowed_commands THEN FALSE
       ELSE IF scope \notin map[role].allowed_scopes THEN FALSE
       ELSE TRUE

\* The signature loop of validate_control_message, from signature i on:
\* acc.valid and acc.invalid are the two key-id lists it appends to.
RECURSIVE VerifySignatures(_, _, _, _)
VerifySignatures(m, key_map, i, acc) ==
    IF i > Len(m.signatures) THEN acc
    ELSE LET signature == m.signatures[i]
             key_id == signature.key_id
         IN IF ~Has(key_map, key_id)
            THEN VerifySignatures(m, key_map, i + 1,
                     [acc EXCEPT !.invalid = Append(@, key_id)])
            ELSE IF verify_model_signature(m, signature, key_map[key_id])
            THEN VerifySignatures(m, key_map, i + 1,
                     [acc EXCEPT !.valid = Append(@, key_id)])
            ELSE VerifySignatures(m, key_map, i + 1,
                     [acc EXCEPT !.invalid = Append(@, key_id)])

\* The role loop of validate_control_message, from role i on (break on the
\* first role that is permitted).
RECURSIVE HasPermission(_, _, _)
HasPermission(role_permissions, m, i) ==
    IF i > Len(m.issuer_roles) THEN FALSE
    ELSE IF _check_role_permission(role_permissions, m.issuer_roles[i],
                                   m.command, m.scope)
    THEN TRUE
    ELSE HasPermission(role_permissions, m, i + 1)

\* a signature requirement that lets invalid signatures pass in 'all' mode
SignatureRequirementFailsLax(cfg, checked) ==
    IF cfg.require_all_signatures
    THEN FALSE
    ELSE Len(checked.valid) < cfg.min_signatures

\* The signature requirement, from the two lists the loop built.
SignatureRequirementFails(cfg, checked) ==
    IF cfg.require_all_signatures
    THEN Len(checked.invalid) > 0
    ELSE Len(checked.valid) < cfg.min_signatures

\* validate_control_message(message, public_key, additional_keys) at time t
\* (additional_keys None is the empty dict); cfg carries the enforcer's role_permissions, require_all_signatures and
\* min_signatures.  Returns (is_valid, error).
validate_control_message(cfg, m, public_key, additional_keys, t) ==
    IF is_expired(m, t)
    THEN [valid |-> FALSE, error |-> "Control message has expired"]
    ELSE IF Len(m.signatures) = 0
    THEN [valid |-> FALSE, error |-> "Control message has no signature"]
    ELSE LET issuer_key == [k \in {m.issuer} |-> public_key]
             key_map == DictUpdate(issuer_key, additional_keys)
             checked == VerifySignatures(m, key_map, 1,
                                         [valid |-> <<>>, invalid |-> <<>>])
         IN IF SignatureRequirementFails(cfg, checked)
            THEN [valid |-> FALSE,
                  error |-> IF cfg.require_all_signatures
                            THEN "Not all signatures are valid"
                            ELSE "Insufficient valid signatures"]
            ELSE IF ~HasPermission(cfg.role_permissions, m, 1)
            THEN [valid |-> FALSE, error |-> "Issuer roles not authorized"]
            ELSE [valid |-> TRUE, error |-> None]

(***************************************************************************)
(* Bounds and input sets                                                   *)
(***************************************************************************)
\* longest signature list given to validate_control_message
MaxSigs == 2

\* largest min_signatures an enforcer is configured with
MaxMinSignatures == 2

\* key ids and the public keys behind them: kA is the issuer's, kB a
\* co-signer's (known only through additional_keys), kU is known to nobody
IssuerKeyId == "kA"

IssuerPublicKey == "pkA"

CosignerKeys == [k \in {"kB"} |-> "pkB"]

RoleLists == { <<>>, <<"role:admin">>, <<"role:operator">>, <<"role:client">>,
               <<"role:client", "role:operator">> }

\* a control message without its signatures
BaseMessage(id, issuer, command, scope, roles, expires_at, target) ==
    [message_id |-> id, command |-> command, scope |-> scope,
     issuer |-> issuer, issuer_roles |-> roles,
     expires_at |-> expires_at, target |-> target, signatures |-> <<>>]

\* the signatures a sender can attach to message b: the issuer's own, the
\* issuer's over other bytes, a co-signer's, another key's under the issuer's
\* key id, and one under a key id nobody knows
SignatureChoices(b) ==
    { sign_model(b, "pkA", "kA"),
      sign_model([b EXCEPT !.message_id = "forged"], "pkA", "kA"),
      sign_model(b, "pkB", "kB"),
      sign_model(b, "pkB", "kA"),
      sign_model(b, "pkA", "kU") }

SignatureLists(b, n) ==
    UNION { [1..k -> SignatureChoices(b)] : k \in 0..n }

RbacMessages ==
    UNION { { [b EXCEPT !.signatures = sigs] : sigs \in SignatureLists(b, MaxSigs) } :
            b \in { BaseMessage("m1", IssuerKeyId, c, sc, r, e, None) :
                      c \in {POLICY_UPDATE, SHUTDOWN_NODE},
                      sc \in {"network", "node"},
                      r \in RoleLists,
                      e \in {NoValue, Some(0), Some(1)} } }

RbacConfigs ==
    [role_permissions : {DEFAULT_ROLE_PERMISSIONS},
     require_all_signatures : BOOLEAN,
     min_signatures : 0..MaxMinSignatures,
     additional_keys : {EmptyDict, CosignerKeys}]

NotCalled == [called |-> FALSE, valid |-> FALSE, error |-> None]

NoQuery == [role |-> None, command |-> None, scope |-> None]

(***************************************************************************)
(* Initial values of each component                                        *)
(***************************************************************************)
RbacIdle ==
    /\ rbac_message = BaseMessage("m1", IssuerKeyId, POLICY_UPDATE, "network", <<>>, NoValue, None)
    /\ rbac_config = [role_permissions |-> DEFAULT_ROLE_PERMISSIONS,
                      require_all_signatures |-> FALSE, min_signatures |-> 1,
                      additional_keys |-> EmptyDict]
    /\ rbac_result = NotCalled
    /\ perm_query = NoQuery
    /\ perm_result = FALSE

(***************************************************************************)
(* SpecRbac: validate_control_message on every bounded input               *)
(***************************************************************************)
InitRbac ==
    /\ now = 1
    /\ rbac_message \in RbacMessages
    /\ rbac_config \in RbacConfigs
    /\ rbac_result = NotCalled
    /\ perm_query = NoQuery
    /\ perm_result = FALSE

ValidateControlMessage ==
    /\ ~rbac_result.called
    /\ LET r == validate_control_message(rbac_config, rbac_message, IssuerPublicKey,
                                         rbac_config.additional_keys, now)
       IN rbac_result' = [called |-> TRUE, valid |-> r.valid, error |-> r.error]
    /\ UNCHANGED <<now, rbac_message, rbac_config, perm_query, perm_result, notRbac>>

(***************************************************************************)
(* SpecPerm: _check_role_permission under the default permission matrix    *)
(***************************************************************************)
PermRoles == {"role:admin", "role:operator", "role:anchor", "role:client", "role:bridge"}

CheckRolePermission(role, command, scope) ==
    /\ perm_query' = [role |-> role, command |-> command, scope |-> scope]
    /\ perm_result' = _check_role_permission(DEFAULT_ROLE_PERMISSIONS, role, command, scope)
    /\ UNCHANGED <<now, rbac_message, rbac_config, rbac_result, notRbac>>

(***************************************************************************)
(* node/control_handler.py: ControlMessageHandler                          *)
(***************************************************************************)
\* handle_control_message calls allowed in one behaviour
MaxCalls == 2

\* the clock stops at this tick
MaxTime == 1

\* max_age of the periodic sweep (3600 s in the source) in clock ticks
SweepMaxAge == 0

\* size above which the sweep trims the cache (10000 in the source)
CacheHardCap == 1

\* entries the trim keeps (5000 in the source)
CacheKeep == 1

NodeId == "node-1"

MessageIds == {"m1", "m2"}

\* get_public_key: the keys this node can look up by issuer key id
PublicKeys == [k \in {IssuerKeyId} |-> IssuerPublicKey]

\* the enforcer the handler is built with: RBACEnforcer() defaults
HandlerRbac ==
    [role_permissions |-> DEFAULT_ROLE_PERMISSIONS,
     require_all_signatures |-> FALSE, min_signatures |-> 1,
     additional_keys |-> EmptyDict]

\* _register_default_handlers: ROTATE_KEYS has none
_handlers == {POLICY_UPDATE, REVOKE_CERTIFICATE, REVOKE_NODE,
              UPDATE_BOOTSTRAP, SHUTDOWN_NODE}

\* what a command handler did: cache additions, the new anchor list (None
\* when untouched), tasks spawned, audit events appended, observer callbacks
\* invoked, whether it raised, and its result string
Effect(certs, nodes, anchors, tasks, audit, callbacks, raised, result) ==
    [certs |-> certs, nodes |-> nodes, anchors |-> anchors, tasks |-> tasks,
     audit |-> audit, callbacks |-> callbacks, raised |-> raised, result |-> result]

\* raises: whether the observer callback throws
_handle_policy_update(m, raises) ==
    IF raises
    THEN Effect({}, {}, NoValue, 0, <<"policy_updated">>, <<"on_policy_update">>,
                TRUE, "observer error")
    ELSE Effect({}, {}, NoValue, 0, <<"policy_updated">>, <<"on_policy_update">>,
                FALSE, "Policy update applied")

_handle_revoke_certificate(m, raises) ==
    Effect({"cert-1"}, {}, NoValue, 0, <<"certificate_revoked">>, <<"on_cert_revoked">>,
           FALSE, "Certificate revoked")

_handle_revoke_node(m, raises) ==
    Effect({}, {"node-9"}, NoValue, 0, <<"node_blacklisted">>, <<"on_node_revoked">>,
           FALSE, "Node revoked")

_handle_update_bootstrap(m, raises) ==
    IF raises
    THEN Effect({}, {}, Some(<<"anchor-2">>), 0, <<>>, <<"on_bootstrap_update">>,
                TRUE, "observer error")
    ELSE Effect({}, {}, Some(<<"anchor-2">>), 0, <<"control_message_accepted">>,
                <<"on_bootstrap_update">>, FALSE, "Updated bootstrap anchors")

\* the observer on_shutdown runs later, in the task the handler spawns
_handle_shutdown_node(m, raises) ==
    Effect({}, {}, NoValue, 1, <<"control_message_accepted">>, <<>>,
           FALSE, "Shutdown scheduled")

RunHandler(m, raises) ==
    CASE m.command = POLICY_UPDATE      -> _handle_policy_update(m, raises)
      [] m.command = REVOKE_CERTIFICATE -> _handle_revoke_certificate(m, raises)
      [] m.command = REVOKE_NODE        -> _handle_revoke_node(m, raises)
      [] m.command = UPDATE_BOOTSTRAP   -> _handle_update_bootstrap(m, raises)
      [] m.command = SHUTDOWN_NODE      -> _handle_shutdown_node(m, raises)

InReplayCache(cache, id) == \E i \in DOMAIN cache : cache[i].id = id

Observers == {"on_policy_update", "on_cert_revoked", "on_node_revoked",
              "on_bootstrap_update", "on_shutdown"}

CountCalls(counts, callbacks) ==
    [o \in Observers |-> counts[o] + Cardinality({i \in DOMAIN callbacks : callbacks[i] = o})]

\* get_public_key followed by validate_control_message, as the handler calls
\* them: an issuer without a key is not validated at all
IssuerValidation(m, t) ==
    IF ~Has(PublicKeys, m.issuer)
    THEN [valid |-> FALSE, error |-> "Unknown issuer"]
    ELSE validate_control_message(HandlerRbac, m, PublicKeys[m.issuer], EmptyDict, t)

\* the checks of handle_control_message without the target check
ControlDecisionNoTarget(cache, m, t) ==
    IF InReplayCache(cache, m.message_id) THEN "replay"
    ELSE IF ~Has(PublicKeys, m.issuer) THEN "unknown_issuer"
    ELSE IF ~validate_control_message(HandlerRbac, m, PublicKeys[m.issuer],
                                      EmptyDict, t).valid THEN "invalid"
    ELSE IF m.command \notin _handlers THEN "no_handler"
    ELSE "execute"

\* The checks of handle_control_message that come before the handler runs.
\* Returns the step it stops at: "replay", "unknown_issuer", "invalid",
\* "not_targeted", "no_handler", or "execute".
ControlDecision(cache, m, t) ==
    IF InReplayCache(cache, m.message_id) THEN "replay"
    ELSE IF ~Has(PublicKeys, m.issuer) THEN "unknown_issuer"
    ELSE IF ~validate_control_message(HandlerRbac, m, PublicKeys[m.issuer],
                                      EmptyDict, t).valid THEN "invalid"
    ELSE IF m.target # None /\ m.target # NodeId THEN "not_targeted"
    ELSE IF m.command \notin _handlers THEN "no_handler"
    ELSE "execute"

\* the error string returned with False
ControlError(m, decision, t) ==
    CASE decision = "replay" -> "Control message already processed (replay attack?)"
      [] decision = "unknown_issuer" -> "Unknown issuer"
      [] decision = "invalid" ->
            validate_control_message(HandlerRbac, m, PublicKeys[m.issuer], EmptyDict, t).error
      [] decision = "not_targeted" -> "Message not targeted at this node"
      [] decision = "no_handler" -> "No handler for command"

\* handle_control_message(message).  The replay check, the validation and the
\* marking run without a suspension point, and the handler and its observer
\* complete within the call.
handle_control_message(m, raises) ==
    /\ calls < MaxCalls
    /\ calls' = calls + 1
    /\ LET decision == ControlDecision(_processed_messages, m, now)
           marked == decision \in {"not_targeted", "no_handler", "execute"}
           e == IF decision = "execute" THEN RunHandler(m, raises)
                ELSE Effect({}, {}, NoValue, 0, <<>>, <<>>, FALSE, None)
       IN /\ _processed_messages' =
                 IF marked
                 THEN Append(_processed_messages, [id |-> m.message_id, ts |-> now])
                 ELSE _processed_messages
          /\ _revoked_certs' = _revoked_certs \cup e.certs
          /\ _revoked_nodes' = _revoked_nodes \cup e.nodes
          /\ _bootstrap_anchors' =
                 IF e.anchors = NoValue THEN _bootstrap_anchors ELSE e.anchors[1]
          /\ shutdown_tasks' = shutdown_tasks + e.tasks
          /\ audit_log' = audit_log \o e.audit
          /\ observer_calls' = CountCalls(observer_calls, e.callbacks)
          /\ executions' =
                 IF decision = "execute"
                 THEN [executions EXCEPT ![m.message_id] = @ + 1]
                 ELSE executions
          /\ last_call' =
                 [called |-> TRUE,
                  command |-> m.command, issuer_roles |-> m.issuer_roles,
                  replay |-> InReplayCache(_processed_messages, m.message_id),
                  rbac_valid |-> IssuerValidation(m, now).valid,
                  targeted |-> m.target = None \/ m.target = NodeId,
                  executed |-> decision = "execute",
                  callbacks |-> Len(e.callbacks),
                  audited |-> e.audit,
                  ok |-> decision = "execute" /\ ~e.raised,
                  error |-> IF decision = "execute"
                            THEN (IF e.raised THEN e.result ELSE None)
                            ELSE ControlError(m, decision, now)]
    /\ UNCHANGED <<now, _running, _replay_cache_file, cache_file, notCtl>>

\* the task _handle_shutdown_node spawned: after the grace period it calls
\* the on_shutdown observer
_do_shutdown ==
    /\ shutdown_tasks > 0
    /\ shutdown_tasks' = shutdown_tasks - 1
    /\ observer_calls' = CountCalls(observer_calls, <<"on_shutdown">>)
    /\ UNCHANGED <<now, _processed_messages, _running, _replay_cache_file, cache_file,
                   _revoked_certs, _revoked_nodes, _bootstrap_anchors, audit_log,
                   executions, calls, last_call, notCtl>>

\* cleanup_processed_messages(max_age) at time t
cleanup_processed_messages(cache, max_age, t) ==
    SelectSeq(cache, LAMBDA entry : ~((t - entry.ts) > max_age))

\* sorted(items, key=timestamp, reverse=True): stable, so entries with equal
\* timestamps keep their dict order
RECURSIVE SortedByTimestampDesc(_)
SortedByTimestampDesc(items) ==
    IF items = <<>> THEN <<>>
    ELSE LET i == CHOOSE i \in DOMAIN items :
                     /\ \A j \in DOMAIN items : items[j].ts <= items[i].ts
                     /\ \A j \in 1..(i - 1) : items[j].ts < items[i].ts
             rest == [k \in 1..(Len(items) - 1) |->
                         IF k < i THEN items[k] ELSE items[k + 1]]
         IN <<items[i]>> \o SortedByTimestampDesc(rest)

_trim_replay_cache(cache, max_entries) ==
    IF Len(cache) <= max_entries THEN cache
    ELSE SubSeq(SortedByTimestampDesc(cache), 1, max_entries)

\* one iteration of _cleanup_loop, after its sleep
_cleanup_loop ==
    /\ _running
    /\ LET swept == cleanup_processed_messages(_processed_messages, SweepMaxAge, now)
       IN _processed_messages' =
              IF Len(swept) > CacheHardCap
              THEN _trim_replay_cache(swept, CacheKeep)
              ELSE swept
    /\ UNCHANGED <<now, _running, _replay_cache_file, cache_file, _revoked_certs,
                   _revoked_nodes, _bootstrap_anchors, shutdown_tasks, audit_log,
                   observer_calls, executions, calls, last_call, notCtl>>

\* _load_replay_cache: the file's content replaces the cache when it exists
_load_replay_cache(cache, file) ==
    IF file = NoValue THEN cache ELSE file[1]

\* start(replay_cache_file)
start(replay_cache_file) ==
    /\ ~_running
    /\ _running' = TRUE
    /\ _replay_cache_file' = replay_cache_file
    /\ _processed_messages' =
           IF replay_cache_file # None
           THEN _load_replay_cache(_processed_messages, cache_file)
           ELSE _processed_messages
    /\ UNCHANGED <<now, cache_file, _revoked_certs, _revoked_nodes, _bootstrap_anchors,
                   shutdown_tasks, audit_log, observer_calls, executions, calls,
                   last_call, notCtl>>

\* stop(): cancels the cleanup task and persists the cache (_save_replay_cache)
stop ==
    /\ _running' = FALSE
    /\ cache_file' =
           IF _replay_cache_file # None THEN Some(_processed_messages) ELSE cache_file
    /\ UNCHANGED <<now, _processed_messages, _replay_cache_file, _revoked_certs,
                   _revoked_nodes, _bootstrap_anchors, shutdown_tasks, audit_log,
                   observer_calls, executions, calls, last_call, notCtl>>

\* time passes
Tick ==
    /\ now < MaxTime
    /\ now' = now + 1

\* the control messages a peer can present
CtlMessage(id, command, roles, target, expires_at, auth) ==
    LET b == BaseMessage(id, IF auth = "unknown_issuer" THEN "kU" ELSE IssuerKeyId,
                         command, "network", roles, expires_at, target)
    IN [b EXCEPT !.signatures =
            IF auth = "forged"
            THEN << sign_model([b EXCEPT !.message_id = "forged"], IssuerPublicKey, b.issuer) >>
            ELSE << sign_model(b, IssuerPublicKey, b.issuer) >>]

\* policy updates in every variation of roles, target, expiry and
\* signature, and the other commands as an administrator issues them
CtlMessages ==
    { CtlMessage(id, POLICY_UPDATE, r, tg, e, a) :
        id \in MessageIds,
        r \in { <<"role:admin">>, <<"role:client">> },
        tg \in {None, NodeId, "node-2"},
        e \in {NoValue, Some(0)},
        a \in {"signed", "forged", "unknown_issuer"} }
    \cup
    { CtlMessage(id, c, <<"role:admin">>, tg, NoValue, "signed") :
        id \in MessageIds, c \in ControlCommand \ {POLICY_UPDATE},
        tg \in {None, "node-2"} }

\* messages an administrator issued to every node, some already expiring at
\* time 0, and a shutdown addressed to this node or to another one
ReplayMessages ==
    { CtlMessage(id, c, <<"role:admin">>, None, e, "signed") :
        id \in MessageIds, c \in {POLICY_UPDATE, REVOKE_CERTIFICATE},
        e \in {NoValue, Some(0)} }
    \cup
    { CtlMessage(id, SHUTDOWN_NODE, <<"role:admin">>, tg, NoValue, "signed") :
        id \in MessageIds, tg \in {NodeId, "node-2"} }

NoCall ==
    [called |-> FALSE, command |-> None, issuer_roles |-> <<>>,
     replay |-> FALSE, rbac_valid |-> FALSE, targeted |-> FALSE,
     executed |-> FALSE, callbacks |-> 0, audited |-> <<>>, ok |-> FALSE,
     error |-> None]

CtlIdle ==
    /\ _processed_messages = <<>>
    /\ _running = FALSE
    /\ _replay_cache_file = None
    /\ cache_file = NoValue
    /\ _revoked_certs = {}
    /\ _revoked_nodes = {}
    /\ _bootstrap_anchors = <<>>
    /\ shutdown_tasks = 0
    /\ audit_log = <<>>
    /\ observer_calls = [o \in Observers |-> 0]
    /\ executions = [id \in MessageIds |-> 0]
    /\ calls = 0
    /\ last_call = NoCall

(***************************************************************************)
(* routing/table.py: RoutingTable.  Every operation runs under the table's *)
(* lock and has no suspension point inside it, so each is one step.        *)
(***************************************************************************)
\* max_metric the tables are built with (10 by default)
max_metric == 3

\* route_timeout in clock ticks (300 s by default): a route is stale one tick
\* after it was installed
route_timeout == 0

\* add_neighbor calls allowed per table (caps _local_sequence)
MaxLocalSequence == 2

\* add_neighbor's default metric
DefaultLinkMetric == 1

LinkMetrics == {DefaultLinkMetric, 2}

Route(destination, next_hop, metric, sequence, timestamp, learned_from) ==
    [destination |-> destination, next_hop |-> next_hop, metric |-> metric,
     sequence |-> sequence, timestamp |-> timestamp, learned_from |-> learned_from]

\* a table's mutable fields
Table(rts, nbrs, seqs, local) ==
    [routes |-> rts, neighbors |-> nbrs, _sequences |-> seqs, _local_sequence |-> local]

EmptyTable == Table(EmptyDict, EmptyDict, EmptyDict, 0)

\* add_neighbor(peer_id, metric) at time t
add_neighbor(tbl, peer_id, metric, t) ==
    [tbl EXCEPT
        !.neighbors = DictSet(tbl.neighbors, peer_id, metric),
        !._local_sequence = tbl._local_sequence + 1,
        !.routes = DictSet(tbl.routes, peer_id,
                           Route(peer_id, peer_id, metric, tbl._local_sequence + 1,
                                 t, "direct"))]

\* remove_neighbor that forgets to invalidate the routes through the peer
remove_neighbor_keep_routes(tbl, peer_id) ==
    [tbl EXCEPT !.neighbors = DictDel(tbl.neighbors, {peer_id})]

\* remove_neighbor(peer_id)
remove_neighbor(tbl, peer_id) ==
    LET to_remove == {dest \in DOMAIN tbl.routes : tbl.routes[dest].next_hop = peer_id}
    IN [tbl EXCEPT
           !.neighbors = DictDel(tbl.neighbors, {peer_id}),
           !.routes = DictDel(tbl.routes, to_remove)]

\* the acceptance test of update_route against the existing route
AcceptsOverExisting(existing, metric, sequence) ==
    IF sequence > existing.sequence THEN TRUE
    ELSE IF sequence = existing.sequence /\ metric < existing.metric THEN TRUE
    ELSE FALSE

\* update_route(destination, next_hop, metric, sequence, learned_from) of the
\* table of node node_id at time t; returns the table and the result
update_route(node_id, tbl, destination, next_hop, metric, sequence, learned_from, t) ==
    IF destination = node_id THEN [table |-> tbl, result |-> FALSE]
    ELSE IF metric > max_metric THEN [table |-> tbl, result |-> FALSE]
    ELSE IF ~Has(tbl.neighbors, next_hop) THEN [table |-> tbl, result |-> FALSE]
    ELSE IF Has(tbl.routes, destination)
            /\ ~AcceptsOverExisting(tbl.routes[destination], metric, sequence)
    THEN [table |-> tbl, result |-> FALSE]
    ELSE LET total_metric == metric + tbl.neighbors[next_hop]
         IN IF total_metric > max_metric THEN [table |-> tbl, result |-> FALSE]
            ELSE [table |-> [tbl EXCEPT
                                !.routes = DictSet(tbl.routes, destination,
                                               Route(destination, next_hop, total_metric,
                                                     sequence, t, learned_from)),
                                !._sequences = DictSet(tbl._sequences, destination, sequence)],
                  result |-> TRUE]

\* get_all_routes(): every route, direct-neighbor routes included
get_all_routes(tbl) ==
    {tbl.routes[d] : d \in DOMAIN tbl.routes}

\* get_routes_to_announce()
get_routes_to_announce(tbl) ==
    {tbl.routes[d] : d \in {x \in DOMAIN tbl.routes : ~Has(tbl.neighbors, x)}}

\* cleanup_stale_routes expiring every route by its age alone
cleanup_stale_routes_by_age(tbl, t) ==
    LET stale == {dest \in DOMAIN tbl.routes :
                     (t - tbl.routes[dest].timestamp) > route_timeout}
    IN [tbl EXCEPT !.routes = DictDel(tbl.routes, stale)]

\* cleanup_stale_routes() at time t
cleanup_stale_routes(tbl, t) ==
    LET stale == {dest \in DOMAIN tbl.routes :
                     /\ (t - tbl.routes[dest].timestamp) > route_timeout
                     /\ ~Has(tbl.neighbors, dest)}
    IN [tbl EXCEPT !.routes = DictDel(tbl.routes, stale)]

(***************************************************************************)
(* SpecTable: the table of node A, its operations called in any order      *)
(***************************************************************************)
TableNode == "A"

TablePeers == {"B", "C"}

Destinations == {"A", "C", "D"}

NextHops == {"B", "C"}

\* the update_route calls a table can receive: an announced route carries the
\* metric of an installed route (at least one link) and, as its sequence, a
\* local sequence number of the table it was first installed in
UpdateInputs ==
    [destination : Destinations, next_hop : NextHops,
     metric : 1..(max_metric + 1), sequence : 1..MaxLocalSequence]

CurrentTable == Table(routes, neighbors, _sequences, _local_sequence)

SetTable(tbl) ==
    /\ routes' = tbl.routes
    /\ neighbors' = tbl.neighbors
    /\ _sequences' = tbl._sequences
    /\ _local_sequence' = tbl._local_sequence

NoSweep == {}

TableIdle ==
    /\ routes = EmptyDict
    /\ neighbors = EmptyDict
    /\ _sequences = EmptyDict
    /\ _local_sequence = 0
    /\ last_sweep = NoSweep

AddNeighbor(peer_id, metric) ==
    /\ _local_sequence < MaxLocalSequence
    /\ SetTable(add_neighbor(CurrentTable, peer_id, metric, now))
    /\ last_sweep' = NoSweep
    /\ UNCHANGED <<now, notTable>>

RemoveNeighbor(peer_id) ==
    /\ SetTable(remove_neighbor(CurrentTable, peer_id))
    /\ last_sweep' = NoSweep
    /\ UNCHANGED <<now, notTable>>

\* the protocol passes the announcing neighbor as next_hop and learned_from
UpdateRoute(destination, next_hop, metric, sequence) ==
    /\ SetTable(update_route(TableNode, CurrentTable, destination, next_hop, metric,
                             sequence, next_hop, now).table)
    /\ last_sweep' = NoSweep
    /\ UNCHANGED <<now, notTable>>

\* one cleanup_stale_routes call; last_sweep holds the destinations whose
\* route it deleted until the next operation or clock tick
CleanupStaleRoutes ==
    /\ SetTable(cleanup_stale_routes(CurrentTable, now))
    /\ last_sweep' = DOMAIN routes \ DOMAIN cleanup_stale_routes(CurrentTable, now).routes
    /\ UNCHANGED <<now, notTable>>

(***************************************************************************)
(* routing/protocol.py: RoutingProtocol                                    *)
(***************************************************************************)
Nodes == {"A", "B", "C"}

\* _announce_routes: the RouteInfo list of the announcement, next_hop being
\* the announcing node
RouteInfos(node_id, tbl) ==
    { [destination |-> r.destination, next_hop |-> node_id, metric |-> r.metric,
       sequence |-> r.sequence, timestamp |-> r.timestamp] :
      r \in get_routes_to_announce(tbl) }

\* handle_route_announce(message) at node node_id, message sent by sender_id
\* with the RouteInfo entries infos; one destination per entry
RECURSIVE handle_route_announce(_, _, _, _, _)
handle_route_announce(node_id, tbl, sender_id, infos, t) ==
    IF infos = {} THEN tbl
    ELSE LET route_info == CHOOSE r \in infos : TRUE
             rest == infos \ {route_info}
         IN IF route_info.destination = node_id
            THEN handle_route_announce(node_id, tbl, sender_id, rest, t)
            ELSE IF route_info.next_hop = node_id
            THEN handle_route_announce(node_id, tbl, sender_id, rest, t)
            ELSE handle_route_announce(node_id,
                     update_route(node_id, tbl, route_info.destination, sender_id,
                                  route_info.metric, route_info.sequence, sender_id,
                                  t).table,
                     sender_id, rest, t)

(***************************************************************************)
(* SpecNet: nodes A, B, C, each with a table and a protocol instance whose *)
(* broadcast_func hands the announcement to the neighbors it reaches       *)
(***************************************************************************)
NetIdle ==
    /\ tables = [n \in Nodes |-> EmptyTable]
    /\ announced = {}

NetAddNeighbor(n, peer_id, metric) ==
    /\ tables[n]._local_sequence < MaxLocalSequence
    /\ tables' = [tables EXCEPT ![n] = add_neighbor(@, peer_id, metric, now)]
    /\ announced' = {}
    /\ UNCHANGED <<now, notNet>>

NetRemoveNeighbor(n, peer_id) ==
    /\ tables' = [tables EXCEPT ![n] = remove_neighbor(@, peer_id)]
    /\ announced' = {}
    /\ UNCHANGED <<now, notNet>>

\* one _announce_routes call of node n; receivers are the neighbors the
\* broadcast reaches, each of which runs handle_route_announce
AnnounceRoutes(n, receivers) ==
    /\ receivers \subseteq DOMAIN tables[n].neighbors
    /\ LET infos == RouteInfos(n, tables[n])
       IN tables' = [m \in Nodes |->
                        IF infos # {} /\ m \in receivers
                        THEN handle_route_announce(m, tables[m], n, infos, now)
                        ELSE tables[m]]
    /\ announced' = IF receivers = DOMAIN tables[n].neighbors
                    THEN announced \cup {n}
                    ELSE announced
    /\ UNCHANGED <<now, notNet>>

(***************************************************************************)
(* routing/router.py: MeshRouter                                           *)
(***************************************************************************)
MaxRouteCalls == 2

\* _cleanup_seen_messages: stale_age, 300 seconds, scaled to clock ticks
StaleAge == 0

RouterNode == TableNode

RouterIds == {"m1", "m2"}

\* decrement_ttl returning True while the decremented ttl is not negative
decrement_ttl_nonnegative(ttl) == [ttl |-> ttl - 1, valid |-> ttl - 1 >= 0]

\* MeshMessage.decrement_ttl: the decremented ttl and whether it is still valid
decrement_ttl(ttl) == [ttl |-> ttl - 1, valid |-> ttl - 1 > 0]

\* what one route_message call leaves behind: the seen cache, the returned
\* value, the branch taken, the peers whose send_message accepted the message
\* and message.ttl, which decrement_ttl updates in place before any send
RouteOutcome(seen, result, outcome, sent_to, ttl) ==
    [_seen_messages |-> seen, result |-> result, outcome |-> outcome,
     sent_to |-> sent_to, ttl |-> ttl]

\* _broadcast_message without the loop check
broadcast_message_unchecked(seen, nbrs, conns, message, failing, t) ==
    LET marked == DictSet(seen, message.message_id, t)
    IN IF ~decrement_ttl(message.ttl).valid
       THEN RouteOutcome(marked, FALSE, "ttl_expired", {}, decrement_ttl(message.ttl).ttl)
       ELSE LET targets == {peer_id \in DOMAIN nbrs : peer_id # message.sender_id}
            IN IF targets = {}
               THEN RouteOutcome(marked, FALSE, "no_neighbors", {}, decrement_ttl(message.ttl).ttl)
               ELSE LET sent == {peer_id \in targets :
                                    peer_id \in conns /\ peer_id \notin failing}
                    IN RouteOutcome(marked, sent # {}, "fanout", sent, decrement_ttl(message.ttl).ttl)

\* _broadcast_message over the seen cache, the table's neighbors and the
\* connected peers; failing are the peers whose send_message raises
_broadcast_message(seen, nbrs, conns, message, failing, t) ==
    IF Has(seen, message.message_id)
    THEN RouteOutcome(seen, FALSE, "duplicate", {}, message.ttl)
    ELSE LET marked == DictSet(seen, message.message_id, t)
         IN IF ~decrement_ttl(message.ttl).valid
            THEN RouteOutcome(marked, FALSE, "ttl_expired", {}, decrement_ttl(message.ttl).ttl)
            ELSE LET targets == {peer_id \in DOMAIN nbrs : peer_id # message.sender_id}
                 IN IF targets = {}
                    THEN RouteOutcome(marked, FALSE, "no_neighbors", {}, decrement_ttl(message.ttl).ttl)
                    ELSE LET sent == {peer_id \in targets :
                                         peer_id \in conns /\ peer_id \notin failing}
                         IN RouteOutcome(marked, sent # {}, "fanout", sent, decrement_ttl(message.ttl).ttl)

\* route_message
route_message(node_id, seen, rts, nbrs, conns, message, failing, t) ==
    IF message.recipient_id = node_id
    THEN RouteOutcome(seen, TRUE, "local", {}, message.ttl)
    ELSE IF message.recipient_id = None
    THEN _broadcast_message(seen, nbrs, conns, message, failing, t)
    ELSE IF Has(seen, message.message_id)
    THEN RouteOutcome(seen, FALSE, "duplicate", {}, message.ttl)
    ELSE LET marked == DictSet(seen, message.message_id, t)
         IN IF ~decrement_ttl(message.ttl).valid
            THEN RouteOutcome(marked, FALSE, "ttl_expired", {}, decrement_ttl(message.ttl).ttl)
            ELSE IF ~Has(rts, message.recipient_id)
            THEN RouteOutcome(marked, FALSE, "no_route", {}, decrement_ttl(message.ttl).ttl)
            ELSE LET route == rts[message.recipient_id]
                 IN IF route.next_hop \notin conns
                    THEN RouteOutcome(marked, FALSE, "no_connection", {}, decrement_ttl(message.ttl).ttl)
                    ELSE IF route.next_hop \in failing
                    THEN RouteOutcome(marked, FALSE, "send_failed", {}, decrement_ttl(message.ttl).ttl)
                    ELSE RouteOutcome(marked, TRUE, "forwarded", {route.next_hop}, decrement_ttl(message.ttl).ttl)

\* one pass of _cleanup_seen_messages
cleanup_seen_messages(seen, t) ==
    DictDel(seen, {msg_id \in DOMAIN seen : (t - seen[msg_id]) > StaleAge})

\* the messages handed to route_message: sent by peer C, unicast to this
\* node or to peer B, or broadcast (recipient_id None)
MeshMessages ==
    [message_id : RouterIds, sender_id : {"C"},
     recipient_id : {None, RouterNode, "B"}, ttl : 1..2]

\* the sets of peers whose send_message raises during one call
FailingSets == {{}, {"B"}}

NoRoute ==
    [called |-> FALSE, message_id |-> None, sender_id |-> None,
     recipient_id |-> None, ttl |-> 0, failing |-> {}, result |-> FALSE,
     outcome |-> None, sent_to |-> {}, forwarded_ttl |-> 0]

RouterIdle ==
    /\ _seen_messages = EmptyDict
    /\ connections = {}
    /\ route_calls = 0
    /\ delivered = [id \in RouterIds |-> <<>>]
    /\ broadcasts = [id \in RouterIds |-> 0]
    /\ fanouts = [id \in RouterIds |-> <<>>]
    /\ last_route = NoRoute

\* one route_message call; a message counts as delivered when the call
\* returns True with the message handed to this node or to the next hop
RouteMessage(message, failing) ==
    /\ route_calls < MaxRouteCalls
    /\ LET o == route_message(RouterNode, _seen_messages, routes, neighbors,
                              connections, message, failing, now)
           id == message.message_id
       IN /\ _seen_messages' = o._seen_messages
          /\ delivered' = IF o.outcome \in {"local", "forwarded"}
                          THEN [delivered EXCEPT ![id] = Append(@, now)]
                          ELSE delivered
          /\ broadcasts' = IF message.recipient_id = None
                           THEN [broadcasts EXCEPT ![id] = @ + 1]
                           ELSE broadcasts
          /\ fanouts' = IF o.outcome = "fanout"
                        THEN [fanouts EXCEPT ![id] = Append(@, now)]
                        ELSE fanouts
          /\ last_route' = [called |-> TRUE, message_id |-> id,
                            sender_id |-> message.sender_id,
                            recipient_id |-> message.recipient_id,
                            ttl |-> message.ttl, failing |-> failing,
                            result |-> o.result, outcome |-> o.outcome,
                            sent_to |-> o.sent_to, forwarded_ttl |-> o.ttl]
    /\ route_calls' = route_calls + 1
    /\ UNCHANGED <<now, connections, tableVars, notRouter>>

CleanupSeenMessages ==
    /\ _seen_messages' = cleanup_seen_messages(_seen_messages, now)
    /\ UNCHANGED <<now, connections, route_calls, delivered, broadcasts, fanouts,
                   last_route,
                   tableVars, notRouter>>

\* a connection to peer_id is established or lost
Connect(peer_id) ==
    /\ connections' = connections \cup {peer_id}
    /\ UNCHANGED <<now, _seen_messages, route_calls, delivered, broadcasts, fanouts,
                   last_route,
                   tableVars, notRouter>>

Disconnect(peer_id) ==
    /\ connections' = connections \ {peer_id}
    /\ UNCHANGED <<now, _seen_messages, route_calls, delivered, broadcasts, fanouts,
                   last_route,
                   tableVars, notRouter>>


(***************************************************************************)
(* gossip/crl_gossip.py: CRLGossip over models/revocation.py               *)
(***************************************************************************)
MaxCrlCalls == 3

MaxCrlSequence == 3

\* the Network Authority's key id and public key, the one entry get_public_key knows
NAKeyId == "kNA"

NAPublicKey == "pkNA"

get_public_key(key_id) == IF key_id = NAKeyId THEN NAPublicKey ELSE None

\* CertificateRevocationList.to_canonical_json: every field but the signatures
crl_to_canonical_json(crl) ==
    [crl_id |-> crl.crl_id, sequence |-> crl.sequence, issued_at |-> crl.issued_at,
     issuer |-> crl.issuer]

\* sign_model and verify_model_signature applied to a CRL
sign_crl(crl, public_key, key_id) ==
    [key_id |-> key_id, sig |-> [by |-> public_key, over |-> crl_to_canonical_json(crl)]]

verify_crl_signature(crl, signature, public_key) ==
    /\ signature.sig.by = public_key
    /\ signature.sig.over = crl_to_canonical_json(crl)

\* a CRL of the given sequence and issuer, issued at time 0, before it is signed
UnsignedCrl(sequence, issuer) ==
    [crl_id |-> "crl", sequence |-> sequence, issued_at |-> 0, issuer |-> issuer,
     signatures |-> <<>>]

\* the signature lists a received CRL can carry: none, the NA's, one made with
\* another key, the NA's over other content, and the NA's after another one
CrlSignatureLists(crl) ==
    LET na == sign_crl(crl, NAPublicKey, NAKeyId)
        other == sign_crl(crl, "pkX", NAKeyId)
        tampered == sign_crl([crl EXCEPT !.crl_id = "forged"], NAPublicKey, NAKeyId)
    IN { <<>>, <<na>>, <<other>>, <<tampered>>, <<other, na>> }

ReceivedCrls ==
    UNION { { [c EXCEPT !.signatures = sigs] : sigs \in CrlSignatureLists(c) } :
            c \in { UnsignedCrl(q, i) : q \in 1..MaxCrlSequence, i \in {NAKeyId, "kU"} } }

\* the CRLs the Network Authority issues, handed to set_crl and
\* push_emergency_revocation
IssuedCrls ==
    { [c EXCEPT !.signatures = <<sign_crl(c, NAPublicKey, NAKeyId)>>] :
      c \in { UnsignedCrl(q, NAKeyId) : q \in 1..MaxCrlSequence } }

\* the payload "crl" of a crl_data or emergency_crl message: a CRL or nothing
CrlPayloads == {NoValue} \cup { Some(c) : c \in ReceivedCrls }

\* what a call leaves behind: the CRL held, the cache, what was broadcast, the result
CrlState(crl, cache, bcasts, result) ==
    [current_crl |-> crl, _crl_cache |-> cache, crl_broadcasts |-> bcasts,
     result |-> result]

\* _announce_crl_sequence: the payload given to broadcast_func, if a CRL is held
_announce_crl_sequence(crl, bcasts) ==
    IF crl = NoValue THEN bcasts
    ELSE Append(bcasts, [action |-> "announce_sequence", sequence |-> crl[1].sequence])

\* _request_crl(peer_id, connection): the message given to connection.send_message
_request_crl(peer_id) ==
    <<[action |-> "request_crl", recipient_id |-> peer_id, crl |-> NoValue]>>

\* _send_crl(recipient_id, connection): the crl_data message given to
\* connection.send_message, none when no CRL is held
_send_crl(crl, recipient_id) ==
    IF crl = NoValue THEN <<>>
    ELSE <<[action |-> "crl_data", recipient_id |-> recipient_id, crl |-> crl]>>

\* handle_crl_announce answering every announcement with a request
handle_crl_announce_always_request(crl, sender_id, peer_sequence) ==
    _request_crl(sender_id)

\* handle_crl_announce(message, connection): the messages it gives to
\* connection.send_message, in order
handle_crl_announce(crl, sender_id, peer_sequence) ==
    IF crl = NoValue THEN _request_crl(sender_id)
    ELSE IF peer_sequence > crl[1].sequence THEN _request_crl(sender_id)
    ELSE IF peer_sequence < crl[1].sequence THEN _send_crl(crl, sender_id)
    ELSE <<>>

\* handle_crl_request(message, connection)
handle_crl_request(crl, sender_id) == _send_crl(crl, sender_id)

\* handle_crl_data without the sequence comparison
handle_crl_data_any_sequence(crl, cache, bcasts, crl_data) ==
    IF crl_data = NoValue THEN CrlState(crl, cache, bcasts, FALSE)
    ELSE LET received == crl_data[1]
             issuer_pubkey == get_public_key(received.issuer)
         IN IF issuer_pubkey = None THEN CrlState(crl, cache, bcasts, FALSE)
            ELSE IF received.signatures = <<>> THEN CrlState(crl, cache, bcasts, FALSE)
            ELSE IF ~verify_crl_signature(received, received.signatures[1], issuer_pubkey)
            THEN CrlState(crl, cache, bcasts, FALSE)
            ELSE CrlState(Some(received), DictSet(cache, received.sequence, received),
                          _announce_crl_sequence(Some(received), bcasts), TRUE)

\* handle_crl_data on the payload crl_data
handle_crl_data(crl, cache, bcasts, crl_data) ==
    IF crl_data = NoValue THEN CrlState(crl, cache, bcasts, FALSE)
    ELSE LET received == crl_data[1]
             issuer_pubkey == get_public_key(received.issuer)
         IN IF issuer_pubkey = None THEN CrlState(crl, cache, bcasts, FALSE)
            ELSE IF received.signatures = <<>> THEN CrlState(crl, cache, bcasts, FALSE)
            ELSE IF ~verify_crl_signature(received, received.signatures[1], issuer_pubkey)
            THEN CrlState(crl, cache, bcasts, FALSE)
            ELSE IF crl # NoValue /\ received.sequence <= crl[1].sequence
            THEN CrlState(crl, cache, bcasts, FALSE)
            ELSE CrlState(Some(received), DictSet(cache, received.sequence, received),
                          _announce_crl_sequence(Some(received), bcasts), TRUE)

\* set_crl
set_crl(cache, bcasts, crl) ==
    CrlState(Some(crl), DictSet(cache, crl.sequence, crl), bcasts, TRUE)

\* push_emergency_revocation
push_emergency_revocation(cache, bcasts, crl) ==
    CrlState(Some(crl), DictSet(cache, crl.sequence, crl),
             Append(bcasts, [action |-> "emergency_crl", sequence |-> crl.sequence]),
             TRUE)

\* _max_cache_entries (50 in the source)
_max_cache_entries == 2

\* _cache_retention_age (86400 s in the source) in clock ticks
_cache_retention_age == 0

\* _cleanup_crl_cache at time t: the cache it leaves
_cleanup_crl_cache(crl, cache, t) ==
    IF cache = EmptyDict THEN cache
    ELSE LET sequences_to_keep ==
                 {seq \in DOMAIN cache :
                     Cardinality({q \in DOMAIN cache : q > seq}) < _max_cache_entries}
             pruned ==
                 IF Cardinality(DOMAIN cache) > _max_cache_entries
                 THEN DictDel(cache, DOMAIN cache \ sequences_to_keep)
                 ELSE cache
             old_sequences ==
                 {seq \in DOMAIN pruned :
                     /\ (crl = NoValue \/ seq # crl[1].sequence)
                     /\ (t - pruned[seq].issued_at) > _cache_retention_age}
         IN DictDel(pruned, old_sequences)

NoCrlData == [called |-> FALSE, crl_data |-> NoValue, result |-> FALSE]

NoAnnounce == [called |-> FALSE, sender_id |-> None, sequence |-> 0, sent |-> <<>>]

\* the peers whose announcements arrive
CrlPeers == {"B", "C"}

CrlIdle ==
    /\ current_crl = NoValue
    /\ _crl_cache = EmptyDict
    /\ crl_broadcasts = <<>>
    /\ crl_calls = 0
    /\ last_crl_data = NoCrlData
    /\ last_announce = NoAnnounce

SetCrlState(o) ==
    /\ current_crl' = o.current_crl
    /\ _crl_cache' = o._crl_cache
    /\ crl_broadcasts' = o.crl_broadcasts
    /\ crl_calls' = crl_calls + 1

\* a crl_data message is handled
HandleCrlData(crl_data) ==
    /\ crl_calls < MaxCrlCalls
    /\ LET o == handle_crl_data(current_crl, _crl_cache, crl_broadcasts, crl_data)
       IN /\ SetCrlState(o)
          /\ last_crl_data' = [called |-> TRUE, crl_data |-> crl_data, result |-> o.result]
    /\ last_announce' = NoAnnounce
    /\ UNCHANGED <<now, notCrl>>

\* handle_emergency_crl: handle_crl_data on the pushed message
HandleEmergencyCrl(crl_data) ==
    /\ crl_calls < MaxCrlCalls
    /\ LET o == handle_crl_data(current_crl, _crl_cache, crl_broadcasts, crl_data)
       IN /\ SetCrlState(o)
          /\ last_crl_data' = [called |-> TRUE, crl_data |-> crl_data, result |-> o.result]
    /\ last_announce' = NoAnnounce
    /\ UNCHANGED <<now, notCrl>>

SetCrl(crl) ==
    /\ crl_calls < MaxCrlCalls
    /\ SetCrlState(set_crl(_crl_cache, crl_broadcasts, crl))
    /\ last_crl_data' = NoCrlData
    /\ last_announce' = NoAnnounce
    /\ UNCHANGED <<now, notCrl>>

PushEmergencyRevocation(crl) ==
    /\ crl_calls < MaxCrlCalls
    /\ SetCrlState(push_emergency_revocation(_crl_cache, crl_broadcasts, crl))
    /\ last_crl_data' = NoCrlData
    /\ last_announce' = NoAnnounce
    /\ UNCHANGED <<now, notCrl>>

\* one run of _cleanup_crl_cache
CleanupCrlCache ==
    /\ _crl_cache' = _cleanup_crl_cache(current_crl, _crl_cache, now)
    /\ last_crl_data' = NoCrlData
    /\ last_announce' = NoAnnounce
    /\ UNCHANGED <<now, current_crl, crl_broadcasts, crl_calls, notCrl>>

\* an announce_sequence message from sender_id is handled; it changes nothing
\* the node holds
HandleCrlAnnounce(sender_id, peer_sequence) ==
    /\ last_announce' =
          [called |-> TRUE, sender_id |-> sender_id, sequence |-> peer_sequence,
           sent |-> handle_crl_announce(current_crl, sender_id, peer_sequence)]
    /\ last_crl_data' = NoCrlData
    /\ UNCHANGED <<now, current_crl, _crl_cache, crl_broadcasts, crl_calls, notCrl>>


(***************************************************************************)
(* node/peer_manager.py: PeerManager, and PeerDiscovery.handle_peer_response *)
(* of node/discovery.py.  Reputation is counted in tenths: 10 is 1.0.      *)
(***************************************************************************)
MaxPeerCalls == 4

\* PeerManager.__init__: max_peers (50), max_anchors (10) and
\* blacklist_duration (300 seconds), scaled
max_peers == 2

max_anchors == 1

blacklist_duration == 1

\* cleanup_stale_peers: max_age (3600 seconds), scaled
StaleMaxAge == 0

\* update_reputation: the clamp to [0.0, 1.0] and the blacklisting threshold 0.1
MinReputation == 0

MaxReputation == 10

ReputationFloor == 1

PeerIds == {"p1", "p2", "p3"}

\* a PeerInfo: reputation is whatever the caller or the wire supplies
PeerInfo(node_id, reputation, last_seen) ==
    [node_id |-> node_id, reputation |-> reputation, last_seen |-> last_seen]

\* a PeerState: the fields of info that are read, the anchor flag, the
\* failure count and the blacklist expiry
PeerState(info, is_anchor) ==
    [reputation |-> info.reputation, last_seen |-> info.last_seen,
     is_anchor |-> is_anchor, failed_attempts |-> 0, blacklisted_until |-> NoValue]

\* what a call leaves behind: the peer table, the returned value, and whether
\* the call still holds the lock, waiting to take it a second time
PeerOutcome(prs, result, stuck) == [peers |-> prs, result |-> result, stuck |-> stuck]

\* add_peer, under the lock
add_peer(node_id, prs, peer_info, is_anchor, t) ==
    LET id == peer_info.node_id
    IN IF id = node_id THEN PeerOutcome(prs, FALSE, FALSE)
       ELSE IF /\ Has(prs, id)
               /\ prs[id].blacklisted_until # NoValue
               /\ t < prs[id].blacklisted_until[1]
       THEN PeerOutcome(prs, FALSE, FALSE)
       ELSE IF /\ ~Has(prs, id)
               /\ is_anchor
               /\ Cardinality({p \in DOMAIN prs : prs[p].is_anchor}) >= max_anchors
       THEN PeerOutcome(prs, FALSE, FALSE)
       ELSE IF ~Has(prs, id) /\ Cardinality(DOMAIN prs) >= max_peers
       THEN PeerOutcome(prs, FALSE, FALSE)
       ELSE IF Has(prs, id)
       THEN PeerOutcome([prs EXCEPT ![id].reputation = peer_info.reputation,
                                    ![id].last_seen = peer_info.last_seen,
                                    ![id].is_anchor = is_anchor], TRUE, FALSE)
       ELSE PeerOutcome(DictSet(prs, id, PeerState(peer_info, is_anchor)), TRUE, FALSE)

\* remove_peer, under the lock
remove_peer(prs, peer_id) == DictDel(prs, {peer_id})

\* blacklist_peer, under the lock
blacklist_peer(prs, peer_id, t) ==
    IF Has(prs, peer_id)
    THEN [prs EXCEPT ![peer_id].blacklisted_until = Some(t + blacklist_duration)]
    ELSE prs

\* update_reputation, under the lock; below the threshold it awaits
\* blacklist_peer, which waits for the lock the call itself holds
update_reputation(prs, peer_id, delta) ==
    IF ~Has(prs, peer_id) THEN PeerOutcome(prs, TRUE, FALSE)
    ELSE LET sum == prs[peer_id].reputation + delta
             capped == IF sum < MaxReputation THEN sum ELSE MaxReputation
             clamped == IF capped > MinReputation THEN capped ELSE MinReputation
         IN PeerOutcome([prs EXCEPT ![peer_id].reputation = clamped], TRUE,
                        clamped < ReputationFloor)

\* record_connection_attempt, under the lock; on failure it awaits
\* update_reputation, which waits for the lock the call itself holds
record_connection_attempt(prs, peer_id, success) ==
    IF ~Has(prs, peer_id) THEN PeerOutcome(prs, TRUE, FALSE)
    ELSE IF ~success
    THEN PeerOutcome([prs EXCEPT ![peer_id].failed_attempts = @ + 1], TRUE, TRUE)
    ELSE PeerOutcome([prs EXCEPT ![peer_id].failed_attempts = 0], TRUE, FALSE)

\* cleanup_stale_peers, under the lock; for the first stale peer it awaits
\* remove_peer, which waits for the lock the call itself holds
cleanup_stale_peers(prs, t) ==
    LET stale_peers == {peer_id \in DOMAIN prs : (t - prs[peer_id].last_seen) > StaleMaxAge}
    IN PeerOutcome(prs, TRUE, stale_peers # {})

\* PeerDiscovery.handle_peer_response over the entries peers_data[i..]; a new
\* peer is added with add_peer, which waits while the lock is held
RECURSIVE handle_peer_response(_, _, _, _, _, _)
handle_peer_response(node_id, prs, peers_data, i, lock, t) ==
    IF i > Len(peers_data) THEN prs
    ELSE LET peer_info == peers_data[i]
         IN IF peer_info.node_id = node_id
            THEN handle_peer_response(node_id, prs, peers_data, i + 1, lock, t)
            ELSE IF Has(prs, peer_info.node_id)
            THEN handle_peer_response(node_id,
                     [prs EXCEPT ![peer_info.node_id].last_seen = t],
                     peers_data, i + 1, lock, t)
            ELSE IF lock = "held" THEN prs
            ELSE handle_peer_response(node_id,
                     add_peer(node_id, prs, peer_info, FALSE, t).peers,
                     peers_data, i + 1, lock, t)

\* the reputations a PeerInfo arrives with: the default 1.0 and values that
\* are no reputation, -0.5 and 1.5
InboundReputations == {-5, MaxReputation, 15}

\* the reputation changes requested of update_reputation
ReputationDeltas == {-20, -5, 5, 20}

NoAdd == [called |-> FALSE, node_id |-> None, result |-> FALSE]

NoCleanup == [called |-> FALSE, returned |-> FALSE]

PeerIdle ==
    /\ peers = EmptyDict
    /\ _lock = "free"
    /\ blacklisted_at = [p \in PeerIds |-> NoValue]
    /\ peer_calls = 0
    /\ last_add = NoAdd
    /\ last_cleanup = NoCleanup

\* a call made under "async with self._lock" that ran to the outcome o
UnderLock(o) ==
    /\ peer_calls < MaxPeerCalls
    /\ _lock = "free"
    /\ peers' = o.peers
    /\ _lock' = IF o.stuck THEN "held" ELSE "free"
    /\ peer_calls' = peer_calls + 1

AddPeer(peer_info, is_anchor) ==
    LET o == add_peer(NodeId, peers, peer_info, is_anchor, now)
    IN /\ UnderLock(o)
       /\ last_add' = [called |-> TRUE, node_id |-> peer_info.node_id, result |-> o.result]
       /\ last_cleanup' = NoCleanup
       /\ UNCHANGED <<now, blacklisted_at, notPeer>>

RemovePeer(peer_id) ==
    /\ UnderLock(PeerOutcome(remove_peer(peers, peer_id), TRUE, FALSE))
    /\ last_add' = NoAdd
    /\ last_cleanup' = NoCleanup
    /\ UNCHANGED <<now, blacklisted_at, notPeer>>

BlacklistPeer(peer_id) ==
    /\ UnderLock(PeerOutcome(blacklist_peer(peers, peer_id, now), TRUE, FALSE))
    /\ blacklisted_at' = IF Has(peers, peer_id)
                         THEN [blacklisted_at EXCEPT ![peer_id] = Some(now)]
                         ELSE blacklisted_at
    /\ last_add' = NoAdd
    /\ last_cleanup' = NoCleanup
    /\ UNCHANGED <<now, notPeer>>

UpdateReputation(peer_id, delta) ==
    /\ UnderLock(update_reputation(peers, peer_id, delta))
    /\ last_add' = NoAdd
    /\ last_cleanup' = NoCleanup
    /\ UNCHANGED <<now, blacklisted_at, notPeer>>

RecordConnectionAttempt(peer_id, success) ==
    /\ UnderLock(record_connection_attempt(peers, peer_id, success))
    /\ last_add' = NoAdd
    /\ last_cleanup' = NoCleanup
    /\ UNCHANGED <<now, blacklisted_at, notPeer>>

CleanupStalePeers ==
    /\ UnderLock(cleanup_stale_peers(peers, now))
    /\ last_add' = NoAdd
    /\ last_cleanup' = [called |-> TRUE,
                        returned |-> ~cleanup_stale_peers(peers, now).stuck]
    /\ UNCHANGED <<now, blacklisted_at, notPeer>>

\* a peer list arrives; the handler reads the table without the lock
HandlePeerResponse(peers_data) ==
    /\ peer_calls < MaxPeerCalls
    /\ peers' = handle_peer_response(NodeId, peers, peers_data, 1, _lock, now)
    /\ peer_calls' = peer_calls + 1
    /\ last_add' = NoAdd
    /\ last_cleanup' = NoCleanup
    /\ UNCHANGED <<now, _lock, blacklisted_at, notPeer>>


(***************************************************************************)
(* transport/connection.py: Connection                                     *)
(***************************************************************************)
MaxSends == 4

MaxCloseCalls == 2

\* Connection.__init__: max_queue_size (1000), scaled
max_queue_size == 2

CONNECTING == "connecting"

HANDSHAKING == "handshaking"

ESTABLISHED == "established"

CLOSING == "closing"

CLOSED == "closed"

FAILED == "failed"

ConnectionState == {CONNECTING, HANDSHAKING, ESTABLISHED, CLOSING, CLOSED, FAILED}

\* asyncio.Queue.full() for a queue built with maxsize > 0
QueueFull(queue) == Len(queue) >= max_queue_size

\* what one send_message call leaves behind: the queue, the waiting put()
\* calls, the drop counter, and whether the call returned, raised QueueFull
\* or is waiting in put()
SendOutcome(queue, putters, dropped, outcome) ==
    [_send_queue |-> queue, _putters |-> putters, _dropped_messages |-> dropped,
     outcome |-> outcome]

\* a message whose put() had to wait for space
Waited(message) == [message EXCEPT !.waited = TRUE]

\* send_message that treats a priority message like any other
send_message_ignoring_priority(queue, putters, dropped, drops, message, priority) ==
    IF ~drops
    THEN IF QueueFull(queue)
         THEN SendOutcome(queue, Append(putters, Waited(message)), dropped, "waiting")
         ELSE SendOutcome(Append(queue, message), putters, dropped, "enqueued")
    ELSE IF QueueFull(queue)
         THEN SendOutcome(queue, putters, dropped + 1, "dropped")
         ELSE SendOutcome(Append(queue, message), putters, dropped, "enqueued")

\* send_message on a connection whose drop_on_full is drops
send_message(queue, putters, dropped, drops, message, priority) ==
    IF priority \/ ~drops
    THEN IF QueueFull(queue)
         THEN SendOutcome(queue, Append(putters, Waited(message)), dropped, "waiting")
         ELSE SendOutcome(Append(queue, message), putters, dropped, "enqueued")
    ELSE IF QueueFull(queue)
         THEN SendOutcome(queue, putters, dropped + 1, "dropped")
         ELSE SendOutcome(Append(queue, message), putters, dropped, "enqueued")

\* Task.cancel(): a running task is cancelled, any other is left as it is
Cancelled(task) == IF task = "running" THEN "cancelled" ELSE task

NoSend == [called |-> FALSE, priority |-> FALSE, outcome |-> None]

\* the connection as __init__ leaves it
Constructed(drops) ==
    /\ state = CONNECTING
    /\ drop_on_full = drops
    /\ _send_queue = <<>>
    /\ _putters = <<>>
    /\ _woken = <<>>
    /\ max_written = 0
    /\ _dropped_messages = 0
    /\ _receive_task = "none"
    /\ _send_task = "none"
    /\ _ping_task = "none"
    /\ closing = 0
    /\ transport_closes = 0
    /\ on_close_calls = 0
    /\ close_calls = 0
    /\ sends = 0
    /\ conn_op = None
    /\ last_send = NoSend

ConnIdle == Constructed(TRUE)

queueVars == <<_send_queue, _putters, _woken, max_written, _dropped_messages, sends,
               last_send>>

closeVars == <<closing, transport_closes, on_close_calls, close_calls>>

\* start
ConnStart ==
    /\ _receive_task = "none"
    /\ _receive_task' = "running"
    /\ _send_task' = "running"
    /\ conn_op' = "start"
    /\ UNCHANGED <<now, state, drop_on_full, _ping_task, queueVars, closeVars, notConn>>

\* set_established
set_established ==
    /\ IF state = ESTABLISHED
       THEN UNCHANGED <<state, _ping_task>>
       ELSE /\ state' = ESTABLISHED
            /\ _ping_task' = IF _ping_task = "none" THEN "running" ELSE _ping_task
    /\ conn_op' = "set_established"
    /\ UNCHANGED <<now, drop_on_full, _receive_task, _send_task, queueVars, closeVars,
                   notConn>>

\* _receive_loop receives a frame and gives it to _handle_message
_handle_message(message_type) ==
    /\ _receive_task = "running"
    /\ state \notin {CLOSING, CLOSED}
    /\ IF message_type = "handshake_ack"
       THEN /\ state' = ESTABLISHED
            /\ _ping_task' = IF state # ESTABLISHED /\ _ping_task = "none"
                             THEN "running" ELSE _ping_task
       ELSE UNCHANGED <<state, _ping_task>>
    /\ conn_op' = message_type
    /\ UNCHANGED <<now, drop_on_full, _receive_task, _send_task, queueVars, closeVars,
                   notConn>>

\* close() called by a task other than the connection's own; suspends tells
\* whether transport.close() suspends, leaving the rest of close() for later
close(suspends) ==
    /\ close_calls < MaxCloseCalls
    /\ close_calls' = close_calls + 1
    /\ conn_op' = "close"
    /\ IF state \in {CLOSING, CLOSED}
       THEN UNCHANGED <<state, _receive_task, _send_task, _ping_task, closing,
                        transport_closes, on_close_calls>>
       ELSE /\ _receive_task' = Cancelled(_receive_task)
            /\ _send_task' = Cancelled(_send_task)
            /\ _ping_task' = Cancelled(_ping_task)
            /\ transport_closes' = transport_closes + 1
            /\ IF suspends
               THEN /\ state' = CLOSING
                    /\ closing' = closing + 1
                    /\ UNCHANGED on_close_calls
               ELSE /\ state' = CLOSED
                    /\ on_close_calls' = on_close_calls + 1
                    /\ UNCHANGED closing
    /\ UNCHANGED <<now, drop_on_full, queueVars, notConn>>

\* a suspended close() resumes after transport.close()
close_resume ==
    /\ closing > 0
    /\ closing' = closing - 1
    /\ state' = CLOSED
    /\ on_close_calls' = on_close_calls + 1
    /\ conn_op' = "close_resume"
    /\ UNCHANGED <<now, drop_on_full, _receive_task, _send_task, _ping_task,
                   transport_closes, close_calls, queueVars, notConn>>

\* _receive_loop leaves its loop (end of stream, the loop condition, or its
\* cancellation) and calls close() in its finally clause.  That close()
\* cancels the task it runs in: if transport.close() suspends, CancelledError
\* ends close() there, otherwise at the first suspension of on_close
_receive_loop_exit(suspends) ==
    /\ _receive_task \in {"running", "cancelled"}
    /\ _receive_task' = "done"
    /\ close_calls' = close_calls + 1
    /\ conn_op' = "receive_loop_exit"
    /\ IF state \in {CLOSING, CLOSED}
       THEN UNCHANGED <<state, _send_task, _ping_task, transport_closes, on_close_calls>>
       ELSE /\ _send_task' = Cancelled(_send_task)
            /\ _ping_task' = Cancelled(_ping_task)
            /\ transport_closes' = transport_closes + 1
            /\ IF suspends
               THEN /\ state' = CLOSING
                    /\ UNCHANGED on_close_calls
               ELSE /\ state' = CLOSED
                    /\ on_close_calls' = on_close_calls + 1
    /\ UNCHANGED <<now, drop_on_full, closing, queueVars, notConn>>

\* send_message
SendMessage(priority) ==
    /\ sends < MaxSends
    /\ LET message == [n |-> sends + 1, priority |-> priority, waited |-> FALSE]
           o == send_message(_send_queue, _putters, _dropped_messages, drop_on_full,
                             message, priority)
       IN /\ _send_queue' = o._send_queue
          /\ _putters' = o._putters
          /\ _dropped_messages' = o._dropped_messages
          /\ last_send' = [called |-> TRUE, priority |-> priority, outcome |-> o.outcome]
    /\ sends' = sends + 1
    /\ conn_op' = "send_message"
    /\ UNCHANGED <<now, state, drop_on_full, _woken, max_written, _receive_task,
                   _send_task, _ping_task, closeVars, notConn>>

\* asyncio.Queue.put resumes in a send_message call that a get() has woken:
\* "while self.full()" is evaluated again, so the call enqueues its message
\* when there is space and otherwise waits anew, behind the other waiters
put_resume ==
    /\ _woken # <<>>
    /\ IF QueueFull(_send_queue)
       THEN /\ _putters' = Append(_putters, Head(_woken))
            /\ UNCHANGED _send_queue
       ELSE /\ _send_queue' = Append(_send_queue, Head(_woken))
            /\ UNCHANGED _putters
    /\ _woken' = Tail(_woken)
    /\ conn_op' = "put_resume"
    /\ UNCHANGED <<now, state, drop_on_full, max_written, _dropped_messages, sends,
                   last_send, _receive_task, _send_task, _ping_task, closeVars, notConn>>

\* _send_loop taking the newest queued message instead of the oldest
_send_loop_newest_first ==
    /\ _send_task = "running"
    /\ state \notin {CLOSING, CLOSED}
    /\ _send_queue # <<>>
    /\ _send_queue' = SubSeq(_send_queue, 1, Len(_send_queue) - 1)
    /\ IF _putters # <<>>
       THEN /\ _woken' = Append(_woken, Head(_putters))
            /\ _putters' = Tail(_putters)
       ELSE UNCHANGED <<_putters, _woken>>
    /\ max_written' = IF _send_queue[Len(_send_queue)].n > max_written
                      THEN _send_queue[Len(_send_queue)].n ELSE max_written
    /\ conn_op' = "send_loop"
    /\ UNCHANGED <<now, state, drop_on_full, _dropped_messages, sends, last_send,
                   _receive_task, _send_task, _ping_task, closeVars, notConn>>

\* _send_loop takes the next queued message (asyncio.Queue.get, which wakes
\* the longest-waiting put()) and writes it to the transport
_send_loop ==
    /\ _send_task = "running"
    /\ state \notin {CLOSING, CLOSED}
    /\ _send_queue # <<>>
    /\ _send_queue' = Tail(_send_queue)
    /\ IF _putters # <<>>
       THEN /\ _woken' = Append(_woken, Head(_putters))
            /\ _putters' = Tail(_putters)
       ELSE UNCHANGED <<_putters, _woken>>
    /\ max_written' = IF Head(_send_queue).n > max_written
                      THEN Head(_send_queue).n ELSE max_written
    /\ conn_op' = "send_loop"
    /\ UNCHANGED <<now, state, drop_on_full, _dropped_messages, sends, last_send,
                   _receive_task, _send_task, _ping_task, closeVars, notConn>>


(***************************************************************************)
(* models/certificates.py: JoinCertificate, and node/cert_manager.py:       *)
(* CertificateManager                                                      *)
(***************************************************************************)
MaxRenewCalls == 6

\* the fields and methods a JoinCertificate has; reading any other attribute
\* of a pydantic model raises AttributeError
JoinCertificateAttributes ==
    {"cert_id", "node_public_key", "network_name", "roles", "issued_at", "expires_at",
     "issued_by", "signatures", "to_canonical_json", "is_valid"}

\* JoinCertificate.is_valid(current_time)
is_valid(cert, current_time) ==
    cert.issued_at <= current_time /\ current_time <= cert.expires_at

\* CertificateManager.__init__
_max_failures == 5

\* the coroutines that can be inside _attempt_renewal at once: the monitor
\* task and the callers of force_renewal, which no lock or flag keeps apart
ForceCallers == {"force", "force_again"}

RenewalCallers == {"monitor"} \cup ForceCallers

\* what renew_certificate does: it raises, returns None, or returns a
\* JoinCertificate issued at 0 that expires at the time given
RenewResults ==
    {[kind |-> "raises", issued_at |-> 0, expires_at |-> 0],
     [kind |-> "none", issued_at |-> 0, expires_at |-> 0]}
    \cup [kind : {"certificate"}, issued_at : {0}, expires_at : {0, 1}]

\* _should_renew(cert) at time t: whether it raised, and what it returned.
\* It calls cert.is_expired() and reads cert.valid_to and cert.valid_from
_should_renew(cert, t) ==
    IF "is_expired" \notin JoinCertificateAttributes
    THEN [raised |-> TRUE, value |-> FALSE]
    ELSE IF t > cert.expires_at
    THEN [raised |-> FALSE, value |-> TRUE]
    ELSE IF {"valid_to", "valid_from"} \subseteq JoinCertificateAttributes
    THEN [raised |-> FALSE,
          value |-> 2 * (cert.expires_at - t) <= cert.expires_at - cert.issued_at]
    ELSE [raised |-> TRUE, value |-> FALSE]

\* the try block of _attempt_renewal once renew_certificate has given
\* new_cert at time t: "renewed" when it runs to the return, "failed" when it
\* raises into "except Exception"
attempt_outcome(new_cert, t) ==
    IF new_cert.kind = "raises" THEN "failed"
    ELSE IF new_cert.kind = "none" THEN "failed"
    ELSE IF "is_expired" \notin JoinCertificateAttributes THEN "failed"
    ELSE IF t > new_cert.expires_at THEN "failed"
    ELSE "renewed"

NoRenewal == [n |-> 0, result |-> [kind |-> "none", issued_at |-> 0, expires_at |-> 0]]

CertIdle ==
    /\ cert_running = FALSE
    /\ _failure_count = 0
    /\ renewal_pc = [c \in RenewalCallers |-> "idle"]
    /\ renew_calls = 0
    /\ renewed_calls = 0
    /\ failed_calls = 0
    /\ last_renewal = NoRenewal

\* the head of the loop of _attempt_renewal, reached by caller c on entry
\* and after each backoff sleep: below the failure limit renew_certificate
\* is started in a worker thread, at the limit the method returns
AttemptLoop(c) ==
    IF _failure_count < _max_failures
    THEN /\ renew_calls < MaxRenewCalls
         /\ renew_calls' = renew_calls + 1
         /\ renewal_pc' = [renewal_pc EXCEPT ![c] = "renewing"]
    ELSE /\ renewal_pc' = [renewal_pc EXCEPT ![c] = "idle"]
         /\ UNCHANGED renew_calls

\* start
CertStart ==
    /\ cert_running' = TRUE
    /\ UNCHANGED <<now, _failure_count, renewal_pc, renew_calls, renewed_calls,
                   failed_calls, last_renewal, notCert>>

\* stop: the monitor task is cancelled wherever it is suspended
CertStop ==
    /\ cert_running' = FALSE
    /\ renewal_pc' = [renewal_pc EXCEPT !["monitor"] = "idle"]
    /\ UNCHANGED <<now, _failure_count, renew_calls, renewed_calls, failed_calls,
                   last_renewal, notCert>>

\* one round of _monitor_loop with get_certificate returning cert (a
\* JoinCertificate, or kind "none" for None): an exception of _should_renew
\* is logged and the round is over
_monitor_loop_round(cert) ==
    /\ cert_running
    /\ renewal_pc["monitor"] = "idle"
    /\ LET r == _should_renew(cert, now)
       IN IF cert.kind = "certificate" /\ ~r.raised /\ r.value
          THEN AttemptLoop("monitor")
          ELSE UNCHANGED <<renewal_pc, renew_calls>>
    /\ UNCHANGED <<now, cert_running, _failure_count, renewed_calls, failed_calls,
                   last_renewal, notCert>>

\* force_renewal awaited by caller c
force_renewal(c) ==
    /\ renewal_pc[c] = "idle"
    /\ AttemptLoop(c)
    /\ UNCHANGED <<now, cert_running, _failure_count, renewed_calls, failed_calls,
                   last_renewal, notCert>>

\* renew_certificate returns or raises in the attempt of caller c, and
\* _attempt_renewal runs to its return or to its backoff sleep
renew_returns(c, new_cert) ==
    /\ renewal_pc[c] = "renewing"
    /\ last_renewal' = [n |-> last_renewal.n + 1, result |-> new_cert]
    /\ IF attempt_outcome(new_cert, now) = "renewed"
       THEN /\ _failure_count' = 0
            /\ renewed_calls' = renewed_calls + 1
            /\ renewal_pc' = [renewal_pc EXCEPT ![c] = "idle"]
            /\ UNCHANGED failed_calls
       ELSE /\ _failure_count' = _failure_count + 1
            /\ UNCHANGED renewed_calls
            /\ IF _failure_count + 1 >= _max_failures
               THEN /\ failed_calls' = failed_calls + 1
                    /\ renewal_pc' = [renewal_pc EXCEPT ![c] = "idle"]
               ELSE /\ renewal_pc' = [renewal_pc EXCEPT ![c] = "backoff"]
                    /\ UNCHANGED failed_calls
    /\ UNCHANGED <<now, cert_running, renew_calls, notCert>>

\* the backoff sleep of caller c ends
backoff_elapsed(c) ==
    /\ renewal_pc[c] = "backoff"
    /\ AttemptLoop(c)
    /\ UNCHANGED <<now, cert_running, _failure_count, renewed_calls, failed_calls,
                   last_renewal, notCert>>


(***************************************************************************)
(* audit/logger.py: AuditEvent and AuditLogger.  SHA-256 of a canonical     *)
(* JSON text is the one-element tuple holding the record hashed, so that    *)
(* two hashes are equal exactly when the records are.                       *)
(***************************************************************************)
MaxEvents == 3

AuditActions == {"joined", "left"}

\* AuditEvent.to_dict: the keys written to the file; event_hash is not one
to_dict(event) ==
    [event_id |-> event.event_id, action |-> event.action,
     previous_hash |-> event.previous_hash]

\* AuditEvent.compute_hash
compute_hash(event) == <<to_dict(event)>>

\* a line of the log file as json.loads gives it: a key that is absent reads
\* as None through dict.get and dict.pop(key, None)
FileRecord(d, event_hash) ==
    [event_id |-> d.event_id, action |-> d.action, previous_hash |-> d.previous_hash,
     event_hash |-> event_hash]

\* log_event building every event without a previous_hash
NewEvent_unchained(n, action, chaining, last) ==
    LET unhashed == [event_id |-> n, action |-> action, previous_hash |-> NoValue]
    IN [event_id |-> n, action |-> action, previous_hash |-> unhashed.previous_hash,
        event_hash |-> IF chaining THEN compute_hash(unhashed) ELSE NoValue]

\* the event log_event builds when _last_hash is last, as the n-th event
NewEvent(n, action, chaining, last) ==
    LET unhashed == [event_id |-> n, action |-> action,
                     previous_hash |-> IF chaining THEN last ELSE NoValue]
    IN [event_id |-> n, action |-> action, previous_hash |-> unhashed.previous_hash,
        event_hash |-> IF chaining THEN compute_hash(unhashed) ELSE NoValue]

\* the loop of verify_chain from record i on, previous_hash being the
\* event_hash read from the record before
RECURSIVE verify_from(_, _, _)
verify_from(events, i, previous_hash) ==
    IF i > Len(events) THEN TRUE
    ELSE IF events[i].previous_hash # previous_hash THEN FALSE
    ELSE verify_from(events, i + 1, events[i].event_hash)

\* verify_chain() over the whole file
verify_chain(chaining, events) ==
    IF ~chaining THEN TRUE ELSE verify_from(events, 1, NoValue)

\* the hash of a record that log_event never wrote
ForgedHash == <<[event_id |-> 0, action |-> "forged", previous_hash |-> NoValue]>>

AuditConstructed(chaining) ==
    /\ enable_chaining = chaining
    /\ _last_hash = NoValue
    /\ audit_file = <<>>
    /\ audit_written = <<>>
    /\ verify_result = NoValue

AuditIdle == AuditConstructed(TRUE)

\* log_event, with _write_event appending to_dict of the event to the file
LogEvent(action) ==
    /\ Len(audit_written) < MaxEvents
    /\ LET event == NewEvent(Len(audit_written) + 1, action, enable_chaining, _last_hash)
           line == FileRecord(to_dict(event), NoValue)
       IN /\ _last_hash' = IF enable_chaining THEN event.event_hash ELSE _last_hash
          /\ audit_file' = Append(audit_file, line)
          /\ audit_written' = Append(audit_written, line)
    /\ verify_result' = NoValue
    /\ UNCHANGED <<now, enable_chaining, notAudit>>

\* somebody with access to the file rewrites record i of the file that
\* log_event wrote
Tamper(i, record) ==
    /\ audit_file = audit_written
    /\ i \in DOMAIN audit_file
    /\ audit_file' = [audit_file EXCEPT ![i] = record]
    /\ verify_result' = NoValue
    /\ UNCHANGED <<now, enable_chaining, _last_hash, audit_written, notAudit>>

AlterContent(i) ==
    i \in DOMAIN audit_file /\ Tamper(i, [audit_file[i] EXCEPT !.action = "forged"])

AlterPreviousHash(i) ==
    i \in DOMAIN audit_file /\ Tamper(i, [audit_file[i] EXCEPT !.previous_hash = ForgedHash])

AlterEventHash(i) ==
    i \in DOMAIN audit_file /\ Tamper(i, [audit_file[i] EXCEPT !.event_hash = ForgedHash])

\* record i is deleted from the file
RemoveRecord(i) ==
    /\ audit_file = audit_written
    /\ i \in DOMAIN audit_file
    /\ audit_file' = SubSeq(audit_file, 1, i - 1) \o SubSeq(audit_file, i + 1, Len(audit_file))
    /\ verify_result' = NoValue
    /\ UNCHANGED <<now, enable_chaining, _last_hash, audit_written, notAudit>>

\* records i and i + 1 change places
SwapRecords(i) ==
    /\ audit_file = audit_written
    /\ i \in DOMAIN audit_file
    /\ i + 1 \in DOMAIN audit_file
    /\ audit_file' = [audit_file EXCEPT ![i] = audit_file[i + 1], ![i + 1] = audit_file[i]]
    /\ verify_result' = NoValue
    /\ UNCHANGED <<now, enable_chaining, _last_hash, audit_written, notAudit>>

\* verify_chain()
VerifyChain ==
    /\ verify_result' = Some(verify_chain(enable_chaining, audit_file))
    /\ UNCHANGED <<now, enable_chaining, _last_hash, audit_file, audit_written, notAudit>>


(***************************************************************************)
(* node/node.py: MeshNode._verify_join_certificate                         *)
(***************************************************************************)
\* the genesis block the node holds
genesis_block == [network_name |-> "USG", network_authority |-> [public_key |-> NAPublicKey]]

\* JoinCertificate.to_canonical_json: every field but the signatures
cert_to_canonical_json(cert) ==
    [cert_id |-> cert.cert_id, network_name |-> cert.network_name,
     issued_at |-> cert.issued_at, expires_at |-> cert.expires_at]

\* sign_model and verify_model_signature applied to a JoinCertificate
sign_cert(cert, public_key, key_id) ==
    [key_id |-> key_id, sig |-> [by |-> public_key, over |-> cert_to_canonical_json(cert)]]

verify_cert_signature(cert, signature, public_key) ==
    /\ signature.sig.by = public_key
    /\ signature.sig.over = cert_to_canonical_json(cert)

\* _verify_join_certificate that does not look at the network name
verify_join_certificate_any_network(genesis, cert, t) ==
    IF ~is_valid(cert, t) THEN FALSE
    ELSE \E i \in DOMAIN cert.signatures :
             verify_cert_signature(cert, cert.signatures[i],
                                   genesis.network_authority.public_key)

\* _verify_join_certificate(cert) at time t
_verify_join_certificate(genesis, cert, t) ==
    IF cert.network_name # genesis.network_name THEN FALSE
    ELSE IF ~is_valid(cert, t) THEN FALSE
    ELSE \E i \in DOMAIN cert.signatures :
             verify_cert_signature(cert, cert.signatures[i],
                                   genesis.network_authority.public_key)

UnsignedCert(network_name, issued_at, expires_at) ==
    [cert_id |-> "cert", network_name |-> network_name, issued_at |-> issued_at,
     expires_at |-> expires_at, signatures |-> <<>>]

\* the signature lists a certificate can carry: none, the NA's, one made with
\* another key, the NA's over other content, and the NA's after another one
CertSignatureLists(cert) ==
    LET na == sign_cert(cert, NAPublicKey, NAKeyId)
        other == sign_cert(cert, "pkX", NAKeyId)
        tampered == sign_cert([cert EXCEPT !.cert_id = "forged"], NAPublicKey, NAKeyId)
    IN { <<>>, <<na>>, <<other>>, <<tampered>>, <<other, na>> }

JoinCertificates ==
    UNION { { [c EXCEPT !.signatures = sigs] : sigs \in CertSignatureLists(c) } :
            c \in { UnsignedCert(n, i, e) : n \in {"USG", "other"},
                                            i \in 0..MaxTime + 1, e \in 0..MaxTime + 1 } }

NoJoinCheck == [called |-> FALSE, cert |-> UnsignedCert("USG", 0, 0), t |-> 0, result |-> FALSE]

JoinIdle == join_check = NoJoinCheck

VerifyJoinCertificate(cert) ==
    /\ join_check' = [called |-> TRUE, cert |-> cert, t |-> now,
                      result |-> _verify_join_certificate(genesis_block, cert, now)]
    /\ UNCHANGED <<now, notJoin>>


(***************************************************************************)
(* gossip/crl_gossip.py: two nodes, each with a CRLGossip, joined by one    *)
(* connection that delivers every message, in the order sent.  The source   *)
(* has no caller of the handlers: the dispatch of a REVOCATION message by   *)
(* the action of its payload is the one section 4.10 of the specification   *)
(* describes.                                                              *)
(***************************************************************************)
MaxRounds == 2

GossipNodes == {"A", "B"}

\* the node at the other end of the connection
Neighbor(n) == IF n = "A" THEN "B" ELSE "A"

\* a REVOCATION MeshMessage
RevocationMessage(sender_id, payload) == [sender_id |-> sender_id, payload |-> payload]

\* the inboxes after sender_id has sent the payloads, in order, to its neighbor
Deliver(inbox, sender_id, payloads) ==
    [inbox EXCEPT ![Neighbor(sender_id)] =
        @ \o [i \in 1..Len(payloads) |-> RevocationMessage(sender_id, payloads[i])]]

\* current_crl.sequence of node n, 0 when it holds no CRL
HeldSequence(n) == IF gossip_crl[n] = NoValue THEN 0 ELSE gossip_crl[n][1].sequence

NoGossip == [called |-> FALSE, node |-> None, payload |-> [action |-> None], sent |-> <<>>]

GossipIdle ==
    /\ gossip_crl = [n \in GossipNodes |-> NoValue]
    /\ gossip_cache = [n \in GossipNodes |-> EmptyDict]
    /\ gossip_inbox = [n \in GossipNodes |-> <<>>]
    /\ gossip_rounds = [n \in GossipNodes |-> 0]
    /\ gossip_last = NoGossip

\* one round of _gossip_loop at node n: _announce_crl_sequence, whose
\* broadcast_func sends to the neighbor
_gossip_loop_round(n) ==
    /\ gossip_rounds[n] < MaxRounds
    /\ gossip_rounds' = [gossip_rounds EXCEPT ![n] = @ + 1]
    /\ gossip_inbox' = Deliver(gossip_inbox, n, _announce_crl_sequence(gossip_crl[n], <<>>))
    /\ gossip_last' = NoGossip
    /\ UNCHANGED <<now, gossip_crl, gossip_cache, notGossip>>

\* what node n does with a REVOCATION payload from its neighbor: the CRL
\* and cache it then holds and what it sends over the connection
dispatch_revocation(n, payload) ==
    IF payload.action = "announce_sequence"
    THEN [current_crl |-> gossip_crl[n], _crl_cache |-> gossip_cache[n],
          sent |-> handle_crl_announce(gossip_crl[n], Neighbor(n), payload.sequence)]
    ELSE IF payload.action = "request_crl"
    THEN [current_crl |-> gossip_crl[n], _crl_cache |-> gossip_cache[n],
          sent |-> handle_crl_request(gossip_crl[n], Neighbor(n))]
    ELSE LET o == handle_crl_data(gossip_crl[n], gossip_cache[n], <<>>, payload.crl)
         IN [current_crl |-> o.current_crl, _crl_cache |-> o._crl_cache,
             sent |-> o.crl_broadcasts]

\* node n handles the oldest message sent to it
ReceiveRevocation(n) ==
    /\ gossip_inbox[n] # <<>>
    /\ LET message == Head(gossip_inbox[n])
           o == dispatch_revocation(n, message.payload)
       IN /\ gossip_crl' = [gossip_crl EXCEPT ![n] = o.current_crl]
          /\ gossip_cache' = [gossip_cache EXCEPT ![n] = o._crl_cache]
          /\ gossip_inbox' = Deliver([gossip_inbox EXCEPT ![n] = Tail(@)], n, o.sent)
          /\ gossip_last' = [called |-> TRUE, node |-> n, payload |-> message.payload,
                             sent |-> o.sent]
    /\ UNCHANGED <<now, gossip_rounds, notGossip>>

(***************************************************************************)
(* Specifications                                                          *)
(***************************************************************************)
InitRbacSpec == InitRbac /\ CtlIdle /\ TableIdle /\ NetIdle /\ RouterIdle /\ CrlIdle /\ PeerIdle /\ ConnIdle /\ CertIdle /\ AuditIdle /\ JoinIdle /\ GossipIdle

NextRbac == ValidateControlMessage

SpecRbac == InitRbacSpec /\ [][NextRbac]_vars

InitPerm == now = 0 /\ RbacIdle /\ CtlIdle /\ TableIdle /\ NetIdle /\ RouterIdle /\ CrlIdle /\ PeerIdle /\ ConnIdle /\ CertIdle /\ AuditIdle /\ JoinIdle /\ GossipIdle

NextPerm ==
    \E role \in PermRoles, command \in ControlCommand, scope \in ControlScope :
        CheckRolePermission(role, command, scope)

SpecPerm == InitPerm /\ [][NextPerm]_vars

\* SpecCtl: the handler with its clock, its sweep and its persisted cache,
\* given the messages of ReplayMessages over and over.
\* SpecCalls: the handler given every message of CtlMessages, with the sweep
\* but no clock and no cache file.
InitCtl == now = 0 /\ RbacIdle /\ CtlIdle /\ TableIdle /\ NetIdle /\ RouterIdle /\ CrlIdle /\ PeerIdle /\ ConnIdle /\ CertIdle /\ AuditIdle /\ JoinIdle /\ GossipIdle

\* only the observers of POLICY_UPDATE and UPDATE_BOOTSTRAP can make the
\* handler fail
HandleControlMessage ==
    \E m \in CtlMessages, raises \in BOOLEAN :
        /\ raises => m.command \in {POLICY_UPDATE, UPDATE_BOOTSTRAP}
        /\ handle_control_message(m, raises)

HandleReplayMessage ==
    \E m \in ReplayMessages, raises \in BOOLEAN :
        /\ raises => m.command \in {POLICY_UPDATE, UPDATE_BOOTSTRAP}
        /\ handle_control_message(m, raises)

Start == \E file \in {None, "replay_cache.json"} : start(file)

StartWithoutFile == start(None)

CtlTick == Tick /\ UNCHANGED <<ctlVars, notCtl>>

NextCtl ==
    \/ HandleReplayMessage
    \/ _do_shutdown
    \/ _cleanup_loop
    \/ Start
    \/ stop
    \/ CtlTick

SpecCtl == InitCtl /\ [][NextCtl]_vars

NextCalls ==
    \/ HandleControlMessage
    \/ _do_shutdown
    \/ _cleanup_loop
    \/ StartWithoutFile
    \/ stop

SpecCalls == InitCtl /\ [][NextCalls]_vars

\* SpecTable: one routing table, its operations called in any order with any
\* arguments
InitTable == now = 0 /\ RbacIdle /\ CtlIdle /\ TableIdle /\ NetIdle /\ RouterIdle /\ CrlIdle /\ PeerIdle /\ ConnIdle /\ CertIdle /\ AuditIdle /\ JoinIdle /\ GossipIdle

TableAddNeighbor ==
    \E peer_id \in TablePeers, metric \in LinkMetrics : AddNeighbor(peer_id, metric)

TableRemoveNeighbor ==
    \E peer_id \in TablePeers : RemoveNeighbor(peer_id)

TableUpdateRoute ==
    \E u \in UpdateInputs : UpdateRoute(u.destination, u.next_hop, u.metric, u.sequence)

TableTick ==
    /\ Tick
    /\ last_sweep' = NoSweep
    /\ UNCHANGED <<routes, neighbors, _sequences, _local_sequence, notTable>>

NextTable ==
    \/ TableAddNeighbor
    \/ TableRemoveNeighbor
    \/ TableUpdateRoute
    \/ CleanupStaleRoutes
    \/ TableTick

SpecTable == InitTable /\ [][NextTable]_vars

\* SpecNet: three nodes that add and remove each other as neighbors and
\* announce their routes
InitNet == now = 0 /\ RbacIdle /\ CtlIdle /\ TableIdle /\ NetIdle /\ RouterIdle /\ CrlIdle /\ PeerIdle /\ ConnIdle /\ CertIdle /\ AuditIdle /\ JoinIdle /\ GossipIdle

AddLink ==
    \E n \in Nodes : \E peer_id \in Nodes \ {n} :
        NetAddNeighbor(n, peer_id, DefaultLinkMetric)

RemoveLink ==
    \E n \in Nodes : \E peer_id \in Nodes \ {n} : NetRemoveNeighbor(n, peer_id)

Announce ==
    \E n \in Nodes : \E receivers \in SUBSET (Nodes \ {n}) : AnnounceRoutes(n, receivers)

NextNet ==
    \/ AddLink
    \/ RemoveLink
    \/ Announce

SpecNet == InitNet /\ [][NextNet]_vars

\* SpecRouter: one router over a table with any of the peers B and C as
\* neighbors; connections come and go while messages are handed to
\* route_message and the seen cache is swept
RouterTables ==
    LET b == add_neighbor(EmptyTable, "B", DefaultLinkMetric, 0)
        c == add_neighbor(EmptyTable, "C", DefaultLinkMetric, 0)
    IN {EmptyTable, b, c, add_neighbor(b, "C", DefaultLinkMetric, 0)}

InitRouter ==
    /\ now = 0
    /\ RbacIdle /\ CtlIdle /\ NetIdle /\ RouterIdle /\ CrlIdle /\ PeerIdle /\ ConnIdle /\ CertIdle /\ AuditIdle /\ JoinIdle /\ GossipIdle
    /\ \E tbl \in RouterTables :
           /\ routes = tbl.routes
           /\ neighbors = tbl.neighbors
           /\ _sequences = tbl._sequences
           /\ _local_sequence = tbl._local_sequence
    /\ last_sweep = NoSweep

RouterRouteMessage ==
    \E message \in MeshMessages, failing \in FailingSets :
        RouteMessage(message, failing)

RouterConnect == \E peer_id \in TablePeers : Connect(peer_id)

RouterDisconnect == \E peer_id \in TablePeers : Disconnect(peer_id)

RouterTick == Tick /\ UNCHANGED <<routerVars, tableVars, notRouter>>

NextRouter ==
    \/ RouterRouteMessage
    \/ CleanupSeenMessages
    \/ RouterConnect
    \/ RouterDisconnect
    \/ RouterTick

SpecRouter == InitRouter /\ [][NextRouter]_vars


\* SpecCrl: one CRLGossip given CRL data and emergency pushes by peers and CRLs
\* by the local Network Authority tooling
InitCrl == now = 0 /\ RbacIdle /\ CtlIdle /\ TableIdle /\ NetIdle /\ RouterIdle /\ CrlIdle /\ PeerIdle /\ ConnIdle /\ CertIdle /\ AuditIdle /\ JoinIdle /\ GossipIdle

CrlHandleCrlData == \E crl_data \in CrlPayloads : HandleCrlData(crl_data)

CrlHandleEmergencyCrl == \E crl_data \in CrlPayloads : HandleEmergencyCrl(crl_data)

CrlSetCrl == \E crl \in IssuedCrls : SetCrl(crl)

CrlPushEmergencyRevocation == \E crl \in IssuedCrls : PushEmergencyRevocation(crl)

\* the sequence an announcement carries; 0 is what payload.get("sequence", 0)
\* yields when the field is missing
CrlHandleCrlAnnounce ==
    \E sender_id \in CrlPeers, peer_sequence \in 0..(MaxCrlSequence + 1) :
        HandleCrlAnnounce(sender_id, peer_sequence)

NextCrl ==
    \/ CrlHandleCrlData
    \/ CrlHandleEmergencyCrl
    \/ CrlSetCrl
    \/ CrlPushEmergencyRevocation
    \/ CrlHandleCrlAnnounce

SpecCrl == InitCrl /\ [][NextCrl]_vars

\* SpecCrlCache: the same CRLGossip with its hourly cache cleanup and the clock
CrlTick ==
    /\ Tick
    /\ last_crl_data' = NoCrlData
    /\ last_announce' = NoAnnounce
    /\ UNCHANGED <<current_crl, _crl_cache, crl_broadcasts, crl_calls, notCrl>>

NextCrlCache ==
    \/ CrlHandleCrlData
    \/ CrlSetCrl
    \/ CrlPushEmergencyRevocation
    \/ CleanupCrlCache
    \/ CrlTick

SpecCrlCache == InitCrl /\ [][NextCrlCache]_vars


\* SpecPeers: one peer manager whose operations are called in any order, with
\* peer lists arriving from the network
InitPeers ==
    /\ now = 0
    /\ RbacIdle /\ CtlIdle /\ TableIdle /\ NetIdle /\ RouterIdle /\ CrlIdle /\ PeerIdle /\ ConnIdle /\ CertIdle /\ AuditIdle /\ JoinIdle /\ GossipIdle

PeerInfos ==
    { PeerInfo(id, r, now) : id \in PeerIds \cup {NodeId}, r \in InboundReputations }

PeersAddPeer ==
    \E peer_info \in PeerInfos, is_anchor \in BOOLEAN : AddPeer(peer_info, is_anchor)

PeersRemovePeer == \E peer_id \in PeerIds : RemovePeer(peer_id)

PeersBlacklistPeer == \E peer_id \in PeerIds : BlacklistPeer(peer_id)

PeersUpdateReputation ==
    \E peer_id \in PeerIds, delta \in ReputationDeltas : UpdateReputation(peer_id, delta)

PeersRecordConnectionAttempt ==
    \E peer_id \in PeerIds, success \in BOOLEAN : RecordConnectionAttempt(peer_id, success)

PeersHandlePeerResponse ==
    \E a, b \in PeerInfos : HandlePeerResponse(<<a, b>>)

PeersTick == Tick /\ UNCHANGED <<peerVars, notPeer>>

NextPeers ==
    \/ PeersAddPeer
    \/ PeersRemovePeer
    \/ PeersBlacklistPeer
    \/ PeersUpdateReputation
    \/ PeersRecordConnectionAttempt
    \/ CleanupStalePeers
    \/ PeersHandlePeerResponse
    \/ PeersTick

SpecPeers == InitPeers /\ [][NextPeers]_vars


\* SpecConn: one connection, built in drop-on-full or in waiting mode, whose
\* operations and tasks run in any order
InitConn ==
    /\ now = 0
    /\ RbacIdle /\ CtlIdle /\ TableIdle /\ NetIdle /\ RouterIdle /\ CrlIdle /\ PeerIdle /\ CertIdle /\ AuditIdle /\ JoinIdle /\ GossipIdle
    /\ \E drops \in BOOLEAN : Constructed(drops)

ConnHandleMessage == \E message_type \in {"handshake_ack", "data"} : _handle_message(message_type)

ConnClose == \E suspends \in BOOLEAN : close(suspends)

ConnReceiveLoopExit == \E suspends \in BOOLEAN : _receive_loop_exit(suspends)

ConnSendMessage == \E priority \in BOOLEAN : SendMessage(priority)

NextConn ==
    \/ ConnStart
    \/ set_established
    \/ ConnHandleMessage
    \/ ConnClose
    \/ close_resume
    \/ ConnReceiveLoopExit
    \/ ConnSendMessage
    \/ put_resume
    \/ _send_loop

SpecConn == InitConn /\ [][NextConn]_vars

\* SpecConnFair: the same connection under the event loop's scheduling: a
\* close() suspended in transport.close() resumes, a woken put() resumes, and
\* the send loop takes a queued message while it runs.  Nothing obliges the
\* application or the remote side to act
SpecConnFair ==
    /\ SpecConn
    /\ WF_vars(close_resume)
    /\ WF_vars(put_resume)
    /\ WF_vars(_send_loop)


\* SpecCert: one CertificateManager, started and stopped, its monitor
\* rounds and force_renewal calls as time passes, with renew_certificate
\* raising or returning None, an expired or a valid JoinCertificate
InitCert ==
    /\ now = 0
    /\ RbacIdle /\ CtlIdle /\ TableIdle /\ NetIdle /\ RouterIdle /\ CrlIdle /\ PeerIdle /\ ConnIdle /\ CertIdle /\ AuditIdle /\ JoinIdle /\ GossipIdle

CertMonitorLoopRound == \E cert \in RenewResults \ {[kind |-> "raises", issued_at |-> 0, expires_at |-> 0]} : _monitor_loop_round(cert)

CertRenewReturns == \E c \in RenewalCallers, new_cert \in RenewResults : renew_returns(c, new_cert)

CertBackoffElapsed == \E c \in RenewalCallers : backoff_elapsed(c)

CertForceRenewal == \E c \in ForceCallers : force_renewal(c)

CertTick == Tick /\ UNCHANGED <<certVars, notCert>>

NextCert ==
    \/ CertTick
    \/ CertStart
    \/ CertStop
    \/ CertMonitorLoopRound
    \/ CertForceRenewal
    \/ CertRenewReturns
    \/ CertBackoffElapsed

SpecCert == InitCert /\ [][NextCert]_vars


\* SpecAudit: one AuditLogger with a log file, built with chaining on or
\* off, logging events; the file is rewritten from outside, and verified
InitAudit ==
    /\ now = 0
    /\ RbacIdle /\ CtlIdle /\ TableIdle /\ NetIdle /\ RouterIdle /\ CrlIdle /\ PeerIdle /\ ConnIdle /\ CertIdle /\ JoinIdle /\ GossipIdle
    /\ \E chaining \in BOOLEAN : AuditConstructed(chaining)

AuditLogEvent == \E action \in AuditActions : LogEvent(action)

AuditAlterContent == \E i \in 1..MaxEvents : AlterContent(i)

AuditAlterPreviousHash == \E i \in 1..MaxEvents : AlterPreviousHash(i)

AuditAlterEventHash == \E i \in 1..MaxEvents : AlterEventHash(i)

AuditRemoveRecord == \E i \in 1..MaxEvents : RemoveRecord(i)

AuditSwapRecords == \E i \in 1..MaxEvents : SwapRecords(i)

NextAudit ==
    \/ AuditLogEvent
    \/ AuditAlterContent
    \/ AuditAlterPreviousHash
    \/ AuditAlterEventHash
    \/ AuditRemoveRecord
    \/ AuditSwapRecords
    \/ VerifyChain

SpecAudit == InitAudit /\ [][NextAudit]_vars


\* SpecJoin: a node verifying the join certificates it is given, as time
\* passes
InitJoin == now = 0 /\ RbacIdle /\ CtlIdle /\ TableIdle /\ NetIdle /\ RouterIdle /\ CrlIdle /\ PeerIdle /\ ConnIdle /\ CertIdle /\ AuditIdle /\ JoinIdle /\ GossipIdle

JoinVerifyJoinCertificate == \E cert \in JoinCertificates : VerifyJoinCertificate(cert)

JoinTick == Tick /\ UNCHANGED <<joinVars, notJoin>>

NextJoin ==
    \/ JoinVerifyJoinCertificate
    \/ JoinTick

SpecJoin == InitJoin /\ [][NextJoin]_vars


\* SpecGossip: two connected nodes, each holding no CRL or one the Network
\* Authority issued (installed by set_crl), run their gossip loops and
\* handle the messages the other sends
InitGossip ==
    /\ now = 0
    /\ RbacIdle /\ CtlIdle /\ TableIdle /\ NetIdle /\ RouterIdle /\ CrlIdle /\ PeerIdle /\ ConnIdle /\ CertIdle /\ AuditIdle /\ JoinIdle
    /\ gossip_crl \in [GossipNodes -> {NoValue} \cup {Some(c) : c \in IssuedCrls}]
    /\ gossip_cache =
          [n \in GossipNodes |->
              IF gossip_crl[n] = NoValue THEN EmptyDict
              ELSE set_crl(EmptyDict, <<>>, gossip_crl[n][1])._crl_cache]
    /\ gossip_inbox = [n \in GossipNodes |-> <<>>]
    /\ gossip_rounds = [n \in GossipNodes |-> 0]
    /\ gossip_last = NoGossip

GossipLoopRound == \E n \in GossipNodes : _gossip_loop_round(n)

GossipReceive == \E n \in GossipNodes : ReceiveRevocation(n)

NextGossip ==
    \/ GossipLoopRound
    \/ GossipReceive

SpecGossip == InitGossip /\ [][NextGossip]_vars

\* the event loop runs every task that is ready: each gossip loop makes its
\* rounds and each connection hands over the messages it received
SpecGossipFair ==
    /\ SpecGossip
    /\ \A n \in GossipNodes : WF_vars(_gossip_loop_round(n)) /\ WF_vars(ReceiveRevocation(n))

(***************************************************************************)
(* Claims about the control plane                                          *)
(***************************************************************************)
\* C1: whatever the interleaving of handle_control_message with the sweep and
\* with stop/start, the command handler of a message id runs at most once.
C1_ExecutedAtMostOnce ==
    \A id \in MessageIds : executions[id] <= 1

\* the three preconditions of the latest call: RBAC validation passed, the id
\* was not in the replay cache on entry, the target is unset or this node
CallPreconditions ==
    /\ last_call.rbac_valid
    /\ ~last_call.replay
    /\ last_call.targeted

\* C2: a command handler runs only when RBAC passed, the id was not in the
\* replay cache on entry and the target is unset or this node; otherwise the
\* call returns (False, reason) and neither handler nor observer runs.
C2_ExecutionPreconditions ==
    last_call.called =>
        /\ last_call.executed => CallPreconditions
        /\ ~CallPreconditions =>
              /\ ~last_call.ok
              /\ last_call.error # None
              /\ ~last_call.executed
              /\ last_call.callbacks = 0

\* a call that ran a handler and its observer, made after the sweep had
\* evicted an earlier entry
C2_Witness ==
    /\ last_call.called
    /\ last_call.executed
    /\ last_call.ok
    /\ last_call.callbacks = 1
    /\ calls = 2

\* the validity the contract prescribes for the message under validation:
\* not expired, at least one signature listed, the signature requirement met
\* (threshold: at least min_signatures listed signatures verify under the key
\* supplied for their key id; all: every listed one does), and a declared role
\* that admits the command and the scope
SuppliedKeys ==
    DictUpdate([k \in {rbac_message.issuer} |-> IssuerPublicKey],
               rbac_config.additional_keys)

VerifyingSignatures ==
    { i \in DOMAIN rbac_message.signatures :
        /\ Has(SuppliedKeys, rbac_message.signatures[i].key_id)
        /\ verify_model_signature(rbac_message, rbac_message.signatures[i],
                                  SuppliedKeys[rbac_message.signatures[i].key_id]) }

RoleAdmits(role, command, scope) ==
    \E i \in DOMAIN rbac_config.role_permissions :
        /\ rbac_config.role_permissions[i].role = role
        /\ command \in rbac_config.role_permissions[i].allowed_commands
        /\ scope \in rbac_config.role_permissions[i].allowed_scopes

ContractValid ==
    /\ rbac_message.expires_at = NoValue \/ now <= rbac_message.expires_at[1]
    /\ rbac_message.signatures # <<>>
    /\ IF rbac_config.require_all_signatures
       THEN VerifyingSignatures = DOMAIN rbac_message.signatures
       ELSE Cardinality(VerifyingSignatures) >= rbac_config.min_signatures
    /\ \E i \in DOMAIN rbac_message.issuer_roles :
          RoleAdmits(rbac_message.issuer_roles[i], rbac_message.command,
                     rbac_message.scope)

\* C3: validate_control_message returns valid exactly when the message is not
\* expired, lists a signature, meets the signature requirement of the mode,
\* and one of the issuer's roles admits the command and the scope.
C3_ValidExactlyWhen ==
    rbac_result.called => (rbac_result.valid <=> ContractValid)

\* accepted in 'all' mode with two signatures, issuer and co-signer
C3_Witness ==
    /\ rbac_result.called
    /\ rbac_result.valid
    /\ rbac_config.require_all_signatures
    /\ Len(rbac_message.signatures) = 2
    /\ rbac_message.signatures[1] # rbac_message.signatures[2]

\* the default matrix as documented: admin everything, operator policy and
\* bootstrap updates at network or region scope, anchor and client nothing
DocumentedDefault(role, command, scope) ==
    CASE role = "role:admin" -> TRUE
      [] role = "role:operator" ->
            /\ command \in {POLICY_UPDATE, UPDATE_BOOTSTRAP}
            /\ scope \in {"network", "region"}
      [] OTHER -> FALSE

\* C4: under the default permission matrix role:admin is authorized for every
\* command in every scope, role:operator exactly for policy_update and
\* update_bootstrap at network or region scope, role:anchor and role:client
\* for nothing.
C4_DefaultPermissionMatrix ==
    perm_query.role \in {"role:admin", "role:operator", "role:anchor", "role:client"} =>
        (perm_result <=> DocumentedDefault(perm_query.role, perm_query.command,
                                           perm_query.scope))

\* C5: a correctly signed POLICY_UPDATE whose issuer roles are only
\* role:client is rejected as an authorization failure, runs neither handler
\* nor policy observer, and the rejection is recorded in the audit log.
C5_ClientPolicyUpdateRejectedAndAudited ==
    ( /\ last_call.called
      /\ last_call.command = POLICY_UPDATE
      /\ last_call.issuer_roles = <<"role:client">>
      /\ last_call.error = "Issuer roles not authorized" )
    => /\ ~last_call.ok
       /\ ~last_call.executed
       /\ last_call.callbacks = 0
       /\ \E i \in DOMAIN last_call.audited :
             last_call.audited[i] \in {"control_message_rejected", "authorization_denied"}

(***************************************************************************)
(* Claims about routing                                                    *)
(***************************************************************************)
\* C6: in every state a routing table reaches through add_neighbor,
\* remove_neighbor, update_route and cleanup_stale_routes, the next_hop of
\* every installed route is a current direct neighbor.
C6_NextHopIsNeighbor ==
    \A d \in DOMAIN routes : Has(neighbors, routes[d].next_hop)

\* a learned route through B survives the removal of the other neighbor
C6_Witness ==
    /\ Has(routes, "D")
    /\ routes["D"].next_hop = "B"
    /\ routes["D"].learned_from = "B"
    /\ Has(neighbors, "B")
    /\ ~Has(neighbors, "C")
    /\ _local_sequence >= 2

\* update_route applied to the current table with input u
Updated(u) ==
    update_route(TableNode, CurrentTable, u.destination, u.next_hop, u.metric,
                 u.sequence, u.next_hop, now)

\* C7: whenever update_route accepts an update for a destination that already
\* has a route, the installed (sequence, metric) strictly dominates the
\* previous one: the sequence is greater, or it is equal and the installed
\* metric is strictly smaller.
C7_AcceptedUpdateDominates ==
    \A u \in UpdateInputs :
        (Updated(u).result /\ Has(routes, u.destination)) =>
            LET old == routes[u.destination]
                new == Updated(u).table.routes[u.destination]
            IN \/ new.sequence > old.sequence
               \/ new.sequence = old.sequence /\ new.metric < old.metric

\* the reference acceptance rule for update_route(D, N, M, S) on the table tbl
\* of node node_id
ReferenceAccepts(node_id, tbl, D, N, M, S) ==
    /\ D # node_id
    /\ Has(tbl.neighbors, N)
    /\ M + tbl.neighbors[N] <= max_metric
    /\ \/ ~Has(tbl.routes, D)
       \/ S > tbl.routes[D].sequence
       \/ S = tbl.routes[D].sequence /\ M + tbl.neighbors[N] < tbl.routes[D].metric

\* C8: update_route(D, N, M, S) returns True exactly when the reference rule
\* accepts (D is not this node, N is a neighbor, M + link(N) <= max_metric, and
\* no route to D exists or S is newer or S is equal and M + link(N) is smaller
\* than the installed metric); on True it stores (D, N, M + link(N), S,
\* learned_from N) and changes no other entry, on False the table is unchanged.
C8_UpdateRouteMatchesReference ==
    \A u \in UpdateInputs :
        LET r == Updated(u)
            accept == ReferenceAccepts(TableNode, CurrentTable, u.destination,
                                       u.next_hop, u.metric, u.sequence)
        IN /\ r.result <=> accept
           /\ r.table.neighbors = neighbors
           /\ r.result =>
                 r.table.routes =
                     DictSet(routes, u.destination,
                             Route(u.destination, u.next_hop,
                                   u.metric + neighbors[u.next_hop],
                                   u.sequence, now, u.next_hop))
           /\ ~r.result => r.table = CurrentTable

\* A - B - C in a line, every link of metric 1
Line ==
    /\ tables["A"].neighbors = [k \in {"B"} |-> 1]
    /\ tables["B"].neighbors = [k \in {"A", "C"} |-> 1]
    /\ tables["C"].neighbors = [k \in {"B"} |-> 1]

\* C9: with A - B - C in a line and link metric 1, once every node has run
\* one announce cycle A holds a route to C through B with metric 2 and the
\* sequence B advertises for C.
C9_LineConverges ==
    (Line /\ announced = Nodes) =>
        /\ Has(tables["A"].routes, "C")
        /\ tables["A"].routes["C"].next_hop = "B"
        /\ tables["A"].routes["C"].metric = 2
        /\ tables["A"].routes["C"].sequence = tables["B"].routes["C"].sequence

\* following next_hop towards d from x comes back to a node already visited
RECURSIVE Revisits(_, _, _)
Revisits(x, d, visited) ==
    IF x = d \/ ~Has(tables[x].routes, d) THEN FALSE
    ELSE LET next_hop == tables[x].routes[d].next_hop
         IN IF next_hop \in visited THEN TRUE
            ELSE IF next_hop \notin Nodes THEN FALSE
            ELSE Revisits(next_hop, d, visited \cup {next_hop})

\* C10: in every state of a network whose nodes add and remove neighbors and
\* process each other's announcements, following next_hop for any destination
\* from any node never visits a node twice.
C10_LoopFree ==
    \A x \in Nodes, d \in Nodes : ~Revisits(x, d, {x})

\* every node has announced to its neighbors since the last topology change,
\* in a topology where B had dropped and A still points at B
C10_Witness ==
    /\ announced = Nodes
    /\ Has(tables["A"].routes, "B")
    /\ Has(tables["B"].routes, "A")
    /\ ~Has(tables["B"].neighbors, "C")
    /\ tables["B"]._local_sequence >= 2

(***************************************************************************)
(* Claims about the router                                                 *)
(***************************************************************************)
\* C11: the router delivers a given message_id, to this node or forwarded to
\* the next hop, at most once while the id is within the retention window of
\* the seen cache: two deliveries of one id lie more than StaleAge apart
C11_DeliveredAtMostOnce ==
    \A id \in RouterIds :
        \A i, j \in DOMAIN delivered[id] :
            i < j => delivered[id][j] - delivered[id][i] > StaleAge

\* the direct neighbors with a connection, the sender excepted
ConnectedNeighborsExcept(sender_id) ==
    {peer_id \in DOMAIN neighbors : peer_id # sender_id /\ peer_id \in connections}

\* C12 as stated: once a broadcast id has been given to route_message twice,
\* exactly one fan-out has occurred for it, and a fan-out sends to every
\* direct neighbor that has a connection, except the sender
C12_ExactlyOneFanOut ==
    [][/\ \A id \in RouterIds : broadcasts'[id] >= 2 => Len(fanouts'[id]) = 1
       /\ fanouts' # fanouts =>
              last_route'.sent_to = ConnectedNeighborsExcept(last_route'.sender_id)]_vars

\* C12 amended: two fan-outs of one broadcast id lie more than StaleAge apart;
\* a broadcast whose id is not in the seen cache fans out exactly when its TTL
\* exceeds 1 and there is a neighbor other than its sender; and the fan-out
\* reaches every connected neighbor, the sender excepted, whose send_message
\* does not raise
C12_AtMostOneFanOut ==
    [][/\ \A id \in RouterIds :
              \A i, j \in DOMAIN fanouts'[id] :
                  i < j => fanouts'[id][j] - fanouts'[id][i] > StaleAge
       /\ (route_calls' # route_calls /\ last_route'.recipient_id = None) =>
              LET id == last_route'.message_id
                  targets == DOMAIN neighbors \ {last_route'.sender_id}
              IN /\ fanouts' # fanouts <=>
                        /\ ~Has(_seen_messages, id)
                        /\ last_route'.ttl > 1
                        /\ targets # {}
                 /\ fanouts' # fanouts =>
                        last_route'.sent_to =
                            ConnectedNeighborsExcept(last_route'.sender_id)
                                \ last_route'.failing]_vars

\* the same broadcast id was given twice, fanned out to a neighbor the first
\* time and was suppressed the second time
C12_Witness ==
    /\ last_route.called
    /\ last_route.recipient_id = None
    /\ last_route.outcome = "duplicate"
    /\ broadcasts[last_route.message_id] = 2
    /\ Len(fanouts[last_route.message_id]) = 1

(***************************************************************************)
(* Claims about CRL gossip                                                 *)
(***************************************************************************)
\* C13: the sequence of the CRL held never decreases: once a CRL is held, every
\* step leaves a CRL held whose sequence is at least the one before
C13_SequenceNeverDecreases ==
    [][current_crl # NoValue =>
           /\ current_crl' # NoValue
           /\ current_crl'[1].sequence >= current_crl[1].sequence]_vars

\* the received CRL names an issuer whose key is known and carries, as its NA
\* signature, a signature of that key over the CRL's content
IssuerKnown(crl) == get_public_key(crl.issuer) # None

NASignatureVerifies(crl) ==
    /\ crl.signatures # <<>>
    /\ crl.signatures[1].sig = [by |-> NAPublicKey, over |-> [crl_id |-> crl.crl_id,
                                    sequence |-> crl.sequence, issued_at |-> crl.issued_at,
                                    issuer |-> crl.issuer]]

C15_BlacklistedNotReadmitted ==
    [][(peer_calls' # peer_calls /\ last_add'.called /\ last_add'.result) =>
           LET at == blacklisted_at[last_add'.node_id]
           IN at = NoValue \/ now >= at[1] + blacklist_duration]_vars

\* C16: the peer table never holds more than max_peers peers, nor more than
\* max_anchors peers flagged is_anchor
C16_PeerAndAnchorCaps ==
    /\ Cardinality(DOMAIN peers) <= max_peers
    /\ Cardinality({p \in DOMAIN peers : peers[p].is_anchor}) <= max_anchors

\* C17: every stored peer's reputation lies in [0, 1]
C17_ReputationInRange ==
    \A p \in DOMAIN peers : 0 <= peers[p].reputation /\ peers[p].reputation <= 10

(***************************************************************************)
(* Claims about the connection                                             *)
(***************************************************************************)
\* the transitions of the documented state machine
DocumentedTransitions ==
    {<<CONNECTING, HANDSHAKING>>, <<HANDSHAKING, ESTABLISHED>>, <<CLOSING, CLOSED>>}
        \cup {<<q, CLOSING>> : q \in {CONNECTING, HANDSHAKING, ESTABLISHED}}
        \cup {<<q, FAILED>> : q \in {CONNECTING, HANDSHAKING, ESTABLISHED, CLOSING}}

\* C18: the state only moves along the documented transitions; ESTABLISHED
\* is entered only from HANDSHAKING and only by a HANDSHAKE_ACK, and never
\* again from CLOSING or CLOSED
C18_StateMachine ==
    [][state' # state =>
           /\ <<state, state'>> \in DocumentedTransitions
           /\ state' = ESTABLISHED =>
                  (state = HANDSHAKING /\ conn_op' = "handshake_ack")
           /\ state \in {CLOSING, CLOSED} => state' # ESTABLISHED]_vars

\* C19: close is idempotent: the transport is closed once, on_close is
\* invoked at most once, and a close() call after the first changes nothing
C19_CloseIdempotent ==
    [][/\ transport_closes' <= 1
       /\ on_close_calls' <= 1
       /\ (close_calls' # close_calls /\ close_calls >= 1) =>
              UNCHANGED <<state, _send_task, _ping_task, closing, transport_closes,
                          on_close_calls, queueVars>>]_vars

\* C20: the send queue never holds more than max_queue_size messages; a
\* non-priority send_message in drop-on-full mode that finds the queue full
\* leaves the queue as it is and adds one to the drop counter; a priority
\* send never raises the drop counter: it is enqueued at once when there is
\* space, waits otherwise, and a waiting message leaves the waiting calls only
\* into the queue
WaitingCalls == SeqToSet(_putters) \cup SeqToSet(_woken)

C20_BoundedSendQueue ==
    [][/\ Len(_send_queue') <= max_queue_size
       /\ sends' # sends =>
              LET full == Len(_send_queue) >= max_queue_size
              IN /\ (drop_on_full /\ ~last_send'.priority /\ full) =>
                        /\ _send_queue' = _send_queue
                        /\ _dropped_messages' = _dropped_messages + 1
                 /\ last_send'.priority =>
                        /\ _dropped_messages' = _dropped_messages
                        /\ IF full
                           THEN /\ _send_queue' = _send_queue
                                /\ Len(_putters') = Len(_putters) + 1
                                /\ SubSeq(_putters', 1, Len(_putters)) = _putters
                                /\ _putters'[Len(_putters')].priority
                           ELSE /\ Len(_send_queue') = Len(_send_queue) + 1
                                /\ SubSeq(_send_queue', 1, Len(_send_queue)) = _send_queue
                                /\ _send_queue'[Len(_send_queue')].priority
                                /\ _putters' = _putters
       /\ (sends' = sends /\ WaitingCalls' # WaitingCalls) =>
              \E message \in WaitingCalls :
                  /\ WaitingCalls' = WaitingCalls \ {message}
                  /\ _send_queue' = Append(_send_queue, message)]_vars

\* in drop-on-full mode the queue is full, a priority message waits for
\* space, and the latest, non-priority, send was dropped and counted
C20_Witness ==
    /\ drop_on_full
    /\ Len(_send_queue) = max_queue_size
    /\ \E message \in SeqToSet(_putters) : message.priority
    /\ last_send.called
    /\ ~last_send.priority
    /\ last_send.outcome = "dropped"
    /\ _dropped_messages = 1

(***************************************************************************)
(* Claims about the transport, the certificate manager and the audit log   *)
(***************************************************************************)
\* a step of _send_loop: a message leaves the queue for the transport
Written == Len(_send_queue') < Len(_send_queue)

ClosureSucceeded(result) == result.kind = "certificate" /\ is_valid(result, now)

\* C22: renewal is bounded: a renew_certificate call that fails adds one to
\* the failure count and, when that makes five, fires on_renewal_failed;
\* from then on renew_certificate is not called again; a call that succeeds
\* fires on_certificate_renewed once and returns the failure count to zero
C22_BoundedRenewal ==
    [][/\ _failure_count >= _max_failures => renew_calls' = renew_calls
       /\ last_renewal'.n # last_renewal.n =>
              IF ClosureSucceeded(last_renewal'.result)
              THEN /\ renewed_calls' = renewed_calls + 1
                   /\ _failure_count' = 0
                   /\ failed_calls' = failed_calls
              ELSE /\ _failure_count' = _failure_count + 1
                   /\ renewed_calls' = renewed_calls
                   /\ failed_calls' = IF _failure_count' = _max_failures
                                      THEN failed_calls + 1 ELSE failed_calls]_vars

\* C23: with chaining enabled verify_chain accepts exactly the untampered
\* logs: it returns True when the file holds what log_event wrote, and False
\* when a record was altered, removed or moved
C23_VerifierExact ==
    (enable_chaining /\ verify_result # NoValue) =>
        (verify_result[1] <=> audit_file = audit_written)

\* some signature of the certificate was made with the NA key of the genesis
\* block over the certificate as it stands
SignedByNA(cert) ==
    \E i \in DOMAIN cert.signatures :
        /\ cert.signatures[i].sig.by = genesis_block.network_authority.public_key
        /\ cert.signatures[i].sig.over = cert_to_canonical_json(cert)

\* C24: a join certificate is accepted exactly when its network name is the
\* genesis block's, the time of the check lies in [issued_at, expires_at],
\* both ends included, and one of its signatures verifies against the NA key
\* of the genesis block
C24_JoinCertificateAccepted ==
    join_check.called =>
        (join_check.result <=>
            /\ join_check.cert.network_name = genesis_block.network_name
            /\ join_check.cert.issued_at <= join_check.t
            /\ join_check.t <= join_check.cert.expires_at
            /\ SignedByNA(join_check.cert))

\* a certificate accepted at the very time it expires, its NA signature
\* being the second of two
C24_Witness ==
    /\ join_check.called
    /\ join_check.result
    /\ join_check.t = join_check.cert.expires_at
    /\ join_check.t > join_check.cert.issued_at
    /\ Len(join_check.cert.signatures) = 2

(***************************************************************************)
(* Claims about locking and the peer manager                               *)
(***************************************************************************)
\* C25: no lock is held across a suspension point, so that every operation
\* that takes the peer manager's lock releases it and returns: between
\* operations the lock is free
C25_LockReleased == _lock = "free"

\* a step of record_connection_attempt(P, success=False) on a known peer P:
\* it is the one operation that adds to a failure count
FailedAttempt(P) ==
    /\ Has(peers, P)
    /\ Has(peers', P)
    /\ peers'[P].failed_attempts = peers[P].failed_attempts + 1

\* C26: record_connection_attempt(P, success=False) on a known peer returns,
\* having lowered the reputation of P by 0.1, not below 0, and counted the
\* failure; with the fifth failure in a row, or a reputation below 0.1, P is
\* blacklisted until now + blacklist_duration; a successful attempt leaves
\* the failure count at zero
C26_FailedAttemptPenalised ==
    [][\A P \in PeerIds :
          /\ FailedAttempt(P) =>
                 /\ _lock' = "free"
                 /\ peers'[P].reputation =
                        (IF peers[P].reputation - 1 > MinReputation
                         THEN peers[P].reputation - 1 ELSE MinReputation)
                 /\ (peers'[P].failed_attempts >= 5 \/ peers'[P].reputation < ReputationFloor)
                        => peers'[P].blacklisted_until = Some(now + blacklist_duration)
          /\ (Has(peers, P) /\ Has(peers', P)
                 /\ peers'[P].failed_attempts < peers[P].failed_attempts)
                 => peers'[P].failed_attempts = 0]_vars

\* last_seen older than max_age; no peer of the table has a connection
Stale(prs, P, t) == (t - prs[P].last_seen) > StaleMaxAge

\* C27: cleanup_stale_peers returns, and then the table holds no stale peer
\* while every fresh peer is still there, unchanged
C27_StalePeersRemoved ==
    [][(peer_calls' # peer_calls /\ last_cleanup'.called) =>
          /\ last_cleanup'.returned
          /\ _lock' = "free"
          /\ DOMAIN peers' = {P \in DOMAIN peers : ~Stale(peers, P, now)}
          /\ \A P \in DOMAIN peers' : peers'[P] = peers[P]]_vars

(***************************************************************************)
(* Claims about closing a connection                                       *)
(***************************************************************************)
\* C28: a connection that is in CLOSING, by a local close() or by the
\* receive loop seeing the end of the stream, eventually is CLOSED with
\* on_close invoked
C28_ClosingReachesClosed ==
    (state = CLOSING) ~> (state = CLOSED /\ on_close_calls > 0)

(***************************************************************************)
(* Claims about the time to live of routed messages                        *)
(***************************************************************************)
\* C29: a message the router hands to a connection, unicast or broadcast,
\* carries a ttl exactly one less than the ttl it arrived with, and that ttl
\* is at least 1; a message whose ttl is 0 or less after the decrement is
\* handed to no connection.
C29_TtlDecrementedBeforeSend ==
    /\ last_route.sent_to # {} =>
          /\ last_route.forwarded_ttl = last_route.ttl - 1
          /\ last_route.forwarded_ttl >= 1
    /\ (last_route.called /\ last_route.forwarded_ttl <= 0) =>
          last_route.sent_to = {}

\* a message that arrived with ttl 2 has gone out with ttl 1
C29_Witness ==
    /\ last_route.sent_to # {}
    /\ last_route.ttl = 2
    /\ last_route.forwarded_ttl = 1

(***************************************************************************)
(* Claims about the timeout sweep of the routing table                     *)
(***************************************************************************)
\* the route to dest is in the table before the step and not after it
RouteRemoved(dest) == Has(routes, dest) /\ ~Has(routes', dest)

\* what cleanup_stale_routes makes of the table as it stands: it deletes the
\* routes older than route_timeout whose destination is not a direct
\* neighbor, and no other, and leaves the routes it keeps as they were
SweepExact ==
    LET after == cleanup_stale_routes(CurrentTable, now).routes
    IN \A dest \in DOMAIN routes :
           /\ ~Has(after, dest) <=>
                 /\ (now - routes[dest].timestamp) > route_timeout
                 /\ ~Has(neighbors, dest)
           /\ Has(after, dest) => after[dest] = routes[dest]

\* C30: cleanup_stale_routes removes exactly the routes older than
\* route_timeout whose destination is not a current direct neighbor; the
\* route to a current direct neighbor leaves the table only in a
\* remove_neighbor step, whatever its age.
C30_TimeoutSweepSparesNeighbors ==
    /\ []SweepExact
    /\ [][\A dest \in DOMAIN routes :
              (Has(neighbors, dest) /\ RouteRemoved(dest)) =>
                  \E peer_id \in TablePeers : RemoveNeighbor(peer_id)]_vars

\* a sweep has just removed a stale route and kept the route of a direct
\* neighbor that was older than route_timeout
C30_Witness ==
    /\ last_sweep # NoSweep
    /\ \E dest \in DOMAIN routes :
           /\ Has(neighbors, dest)
           /\ (now - routes[dest].timestamp) > route_timeout

(***************************************************************************)
(* Claims about remove_neighbor                                            *)
(***************************************************************************)
\* C31: whatever the table holds, remove_neighbor(P) takes P out of the
\* neighbors, deletes every route whose next_hop is P, and leaves every other
\* route, every other neighbor and the local sequence number as they were.
C31_RemoveNeighborFrame ==
    \A peer_id \in TablePeers :
        LET after == remove_neighbor(CurrentTable, peer_id)
        IN /\ DOMAIN after.neighbors = DOMAIN neighbors \ {peer_id}
           /\ \A q \in DOMAIN after.neighbors : after.neighbors[q] = neighbors[q]
           /\ DOMAIN after.routes =
                 {dest \in DOMAIN routes : routes[dest].next_hop # peer_id}
           /\ \A dest \in DOMAIN after.routes : after.routes[dest] = routes[dest]
           /\ after._local_sequence = _local_sequence

\* C was added first and B second, and remove_neighbor(B) has run: B and the
\* route to B are gone, C and its direct route are as add_neighbor left them
C31_Witness ==
    /\ _local_sequence = 2
    /\ DOMAIN neighbors = {"C"}
    /\ ~Has(routes, "B")
    /\ Has(routes, "C")
    /\ routes["C"].learned_from = "direct"
    /\ routes["C"].sequence = 1

(***************************************************************************)
(* Claims about the answer to an announce_sequence                         *)
(***************************************************************************)
\* C32: on an announce_sequence from a peer, a node that holds no CRL or a
\* lower sequence sends exactly one request_crl to that peer; a node that
\* holds a higher sequence sends that peer its current CRL as crl_data; a
\* node that holds the same sequence sends nothing.
C32_AnnounceAnswer ==
    last_announce.called =>
        LET sent == last_announce.sent
            peer == last_announce.sender_id
        IN IF current_crl = NoValue \/ current_crl[1].sequence < last_announce.sequence
           THEN /\ Len(sent) = 1
                /\ sent[1].action = "request_crl"
                /\ sent[1].recipient_id = peer
           ELSE IF current_crl[1].sequence > last_announce.sequence
           THEN /\ Len(sent) = 1
                /\ sent[1].action = "crl_data"
                /\ sent[1].recipient_id = peer
                /\ sent[1].crl = current_crl
           ELSE sent = <<>>

\* a node holding sequence 2 has answered an announcement of sequence 1 with
\* its CRL
C32_Witness ==
    /\ last_announce.called
    /\ current_crl # NoValue
    /\ current_crl[1].sequence = 2
    /\ last_announce.sequence = 1
    /\ Len(last_announce.sent) = 1

(***************************************************************************)
(* Claims about the CRL cache cleanup                                      *)
(***************************************************************************)
\* C33: after a run of the cache cleanup the cache holds at most
\* _max_cache_entries entries, holds no entry older than _cache_retention_age
\* other than the current one, and still holds the entry of the current CRL's
\* sequence.
C33_CleanupKeepsCurrent ==
    [][CleanupCrlCache =>
          /\ Cardinality(DOMAIN _crl_cache') <= _max_cache_entries
          /\ \A seq \in DOMAIN _crl_cache' :
                 (now - _crl_cache'[seq].issued_at) > _cache_retention_age =>
                     (current_crl # NoValue /\ seq = current_crl[1].sequence)
          /\ current_crl # NoValue => Has(_crl_cache', current_crl[1].sequence)
      ]_vars

(***************************************************************************)
(* Claims about the chain log_event builds                                 *)
(***************************************************************************)
\* C34: with chaining enabled, the first record log_event produced has no
\* previous_hash, and every later record's previous_hash is the hash of the
\* content, event_hash excluded, of the record produced just before it; the
\* logger's _last_hash is that hash of the latest record.
C34_ChainLinked ==
    enable_chaining =>
        /\ \A i \in DOMAIN audit_written :
               audit_written[i].previous_hash =
                   IF i = 1 THEN NoValue
                   ELSE compute_hash(audit_written[i - 1])
        /\ _last_hash = IF audit_written = <<>> THEN NoValue
                        ELSE compute_hash(audit_written[Len(audit_written)])

\* three records were produced with chaining enabled, the second for another
\* action than the first
C34_Witness ==
    /\ enable_chaining
    /\ Len(audit_written) = 3
    /\ audit_written[1].action # audit_written[2].action
    /\ audit_written[3].previous_hash = compute_hash(audit_written[2])

(***************************************************************************)
(* Claims about stop()                                                     *)
(***************************************************************************)
\* C35: when stop() has returned, no background task the component created
\* is still running; for the ControlMessageHandler that includes the delayed
\* shutdown task scheduled by SHUTDOWN_NODE.
C35_StopLeavesNoTask ==
    [][stop => shutdown_tasks' = 0]_vars

(***************************************************************************)
(* Claims about rejected control messages                                  *)
(***************************************************************************)
\* C36: a handle_control_message call that rejects the message without
\* running a handler (replayed id, unknown issuer, failed validation, or a
\* target naming another node) leaves the replay cache, the two revocation
\* caches and the bootstrap anchors as they were.
C36_RejectionChangesNothing ==
    [][(/\ calls' # calls
        /\ last_call'.called
        /\ ~last_call'.executed
        /\ last_call'.error # "No handler for command") =>
          UNCHANGED <<_processed_messages, _revoked_certs, _revoked_nodes,
                      _bootstrap_anchors>>]_vars

(***************************************************************************)
(* Claims about the signature threshold                                    *)
(***************************************************************************)
\* the key ids under which a listed signature of the message verifies
VerifyingSigners ==
    {rbac_message.signatures[i].key_id : i \in VerifyingSignatures}

\* C37: in threshold mode validate_control_message accepts a message only
\* when signatures of at least min_signatures distinct key ids verify; one
\* signer's signature listed several times counts once.
C37_ThresholdCountsDistinctSigners ==
    (rbac_result.called /\ rbac_result.valid /\ ~rbac_config.require_all_signatures) =>
        Cardinality(VerifyingSigners) >= rbac_config.min_signatures

(***************************************************************************)
(* Claims about concurrent renewal attempts                                *)
(***************************************************************************)
\* C38: renewal attempts that overlap do not corrupt the failure count:
\* while no renewal has succeeded, on_renewal_failed is invoked at most
\* once, and before it is invoked renew_certificate has been called at
\* most five times in total.
C38_ConcurrentAttemptsBounded ==
    renewed_calls = 0 =>
        /\ failed_calls <= 1
        /\ failed_calls = 0 => renew_calls <= _max_failures

(***************************************************************************)
(* Claims about the reachability of neighbors                              *)
(***************************************************************************)
\* C39: in every state the routing table reaches through add_neighbor,
\* remove_neighbor, update_route and cleanup_stale_routes, every direct
\* neighbor is the destination of a route.
C39_NeighborAlwaysRouted ==
    \A peer_id \in DOMAIN neighbors : Has(routes, peer_id)

(***************************************************************************)
(* Claims about CRL gossip between two nodes                               *)
(***************************************************************************)
\* the higher of the two sequences held
HighestSequence ==
    IF HeldSequence("A") >= HeldSequence("B") THEN HeldSequence("A") ELSE HeldSequence("B")

\* both nodes hold a CRL of the higher sequence
Converged == \A n \in GossipNodes : HeldSequence(n) = HighestSequence

\* an announcement handled while both nodes held the sequence it carries
\* was answered with no message
QuietOnceEqual ==
    (/\ gossip_last.called
     /\ gossip_last.payload.action = "announce_sequence"
     /\ Converged
     /\ gossip_last.payload.sequence = HighestSequence) => gossip_last.sent = <<>>

\* C40: between two connected nodes of which at least one holds a CRL the
\* Network Authority signed, the gossip rounds lead to both nodes holding,
\* from then on, the CRL of the higher sequence (which gossip never
\* changes); and once both hold the same sequence a round announces that
\* sequence and the announcement is answered with no REVOCATION message.
C40_GossipConvergesAndQuiesces ==
    /\ [][HighestSequence' = HighestSequence]_vars
    /\ (HighestSequence > 0) ~> []Converged
    /\ [][\A n \in GossipNodes :
              (Converged /\ HighestSequence > 0 /\ _gossip_loop_round(n)) =>
                  gossip_inbox' =
                      Deliver(gossip_inbox, n,
                              <<[action |-> "announce_sequence",
                                 sequence |-> HighestSequence]>>)]_vars
    /\ []QuietOnceEqual

\* node B, which held the CRL of sequence 1, has installed the one of
\* sequence 3 that A holds, and the announcement of 3 that reached A last
\* was left unanswered
C40_Witness ==
    /\ Converged
    /\ HighestSequence = 3
    /\ DOMAIN gossip_cache["B"] = {1, 3}
    /\ gossip_last.called
    /\ gossip_last.node = "A"
    /\ gossip_last.payload.action = "announce_sequence"
    /\ gossip_last.payload.sequence = 3
    /\ gossip_last.sent = <<>>

\* an announcement handled while both nodes held equal sequences was
\* answered with no message, whatever sequence it carried
UnansweredOnceEqual ==
    (/\ gossip_last.called
     /\ gossip_last.payload.action = "announce_sequence"
     /\ Converged) => gossip_last.sent = <<>>

\* C40 as stated: the nodes converge, and once they hold equal sequences
\* no announcement that is handled triggers a REVOCATION message
C40_AnyAnnounceUnanswered ==
    /\ (HighestSequence > 0) ~> []Converged
    /\ []UnansweredOnceEqual

====
